---------------------------- MODULE Spec2Model ----------------------------
(***************************************************************************)
(* Model of the Rotten Tomatoes regression-discontinuity data pipeline.    *)
(*                                                                         *)
(*   SpecNorm  applies utils.normalize_title to bounded title strings.     *)
(*   Spec      runs 05_merge_datasets.merge_datasets on bounded input      *)
(*             tables, one action per stage of the pipeline.               *)
(*                                                                         *)
(* A string is a sequence of one-character strings.  A nullable cell of a  *)
(* table is <<>> when missing (Python None / pandas NaN) and <<v>> when it *)
(* holds v.  A table is a sequence of records; a table a stage has not     *)
(* produced yet is <<>>, a produced one is <<rows>>.  Columns that the     *)
(* pipeline only carries through (max_theaters, genres, rt_url, ...) are   *)
(* left out.                                                               *)
(***************************************************************************)
EXTENDS Integers, Sequences, FiniteSets, TLC

VARIABLES
    title,      \* normalize_title: the argument
    norm1,      \* normalize_title(title)
    norm2,      \* normalize_title(normalize_title(title))
    npc         \* "input" -> "once" -> "twice"

normVars == <<title, norm1, norm2, npc>>

VARIABLES
    stage,          \* merge_datasets: the stage reached
    files,          \* the four CSV files of data/raw
    scorer,         \* rapidfuzz fuzz.token_sort_ratio, as a table of scores
    raw,            \* load_raw_data's result
    bom,            \* merge_bom's result
    bom_rt,         \* merge_rt's result
    bom_df,         \* fuzzy_match_budgets: the working copy of its input
    match_results,  \* fuzzy_match_budgets: the list built by its loop
    scored,         \* <<row, candidate>> pairs the scorer was invoked on
    full,           \* fuzzy_match_budgets's result
    filtered,       \* apply_study_filters's result
    final,          \* construct_rdd_variables's result (plus release_date)
    merged_csv,     \* data/processed/merged_dataset.csv
    diag_csv        \* data/processed/match_diagnostics.csv

pipeVars == <<stage, files, scorer, raw, bom, bom_rt, bom_df, match_results,
              scored, full, filtered, final, merged_csv, diag_csv>>

VARIABLES
    log_files,      \* the files of config.LOG_DIR, by the timestamp in their name
    now             \* the wall clock, in seconds

VARIABLES
    log_lines       \* the lines of this run's log file that report row counts

runVars == <<log_files, now, log_lines>>

VARIABLES
    money_text,     \* parse_money: the argument
    money_result    \* parse_money: how the call ended

moneyVars == <<money_text, money_result>>

VARIABLES
    req_max,        \* make_request: max_retries, after the default is applied
    req_trace,      \* make_request: the outcome of each GET so far
    req_result      \* make_request: how the call ended

reqVars == <<req_max, req_trace, req_result>>

VARIABLES
    cas_film,       \* review cascade: the film, its slug candidates and the
                    \* answers the site gives for it
    cas_done        \* review cascade: the requests made and the record built

casVars == <<cas_film, cas_done>>

VARIABLES
    sc_script,      \* which scraper runs: "bom_details" or "rt_scores"
    sc_films,       \* the film list the scraper reads
    sc_interval,    \* the checkpoint interval of the script
    sc_out,         \* the output CSV file of the script
    sc_pc,          \* "idle", "running" or "done"
    sc_i,           \* the loop: rows of the film list already visited
    sc_processed,   \* processed_ids
    sc_batch,       \* batch
    sc_fetched,     \* the identifiers fetched in this run, with the outcome
    sc_start_ids    \* the identifiers in the output file when the run began

scVars == <<sc_script, sc_films, sc_interval, sc_out, sc_pc, sc_i,
            sc_processed, sc_batch, sc_fetched, sc_start_ids>>

auxVars == <<moneyVars, reqVars, casVars, scVars>>

Null == <<>>
Some(v) == <<v>>

\* the variables of the parts of the program that a specification leaves out
\* stay at these values
MoneyIdle == money_text = <<>> /\ money_result = [kind |-> "idle", value |-> Null]
RequestIdle ==
    req_max = 0 /\ req_trace = <<>> /\ req_result = [kind |-> "idle", status |-> 0]
CascadeIdle == cas_film = <<>> /\ cas_done = <<>>
ScrapeIdle ==
    /\ sc_script = "none"
    /\ sc_films = <<>>
    /\ sc_interval = 0
    /\ sc_out = <<>>
    /\ sc_pc = "idle"
    /\ sc_i = 0
    /\ sc_processed = {}
    /\ sc_batch = <<>>
    /\ sc_fetched = <<>>
    /\ sc_start_ids = {}
Val(x) == x[1]
NotNull(x) == x # Null

\* a table no stage has produced yet, and a produced one
NotYet == <<>>
Table(rows) == <<rows>>
Rows(t) == t[1]
Produced(t) == t # NotYet

(***************************************************************************)
(* Bounds                                                                  *)
(***************************************************************************)
\* number of pieces a title of SpecNorm is concatenated from
MaxPieces == 4
\* rows of bom_index.csv
MaxRows == 2
\* rows of bom_details.csv and of rt_scores.csv where these vary
MaxRight == 2
\* rows of the_numbers_budgets.csv
MaxTN == 2
\* the last second of the wall clock (it starts at 0)
MaxClock == 1

(***************************************************************************)
(* utils.normalize_title                                                   *)
(***************************************************************************)
\* \w of the regular expressions, over the characters the model draws from
WordChars == {"t", "h", "e", "a", "n", "d", "f", "g"}

IsSpace(c) == c = " "

\* str.lower on one character
LowerChar(c) == CASE c = "A" -> "a" [] c = "T" -> "t" [] OTHER -> c

\* title.lower()
Lower(s) == [i \in 1..Len(s) |-> LowerChar(s[i])]

RECURSIVE LStrip(_)
LStrip(s) == IF s # <<>> /\ IsSpace(Head(s)) THEN LStrip(Tail(s)) ELSE s

RECURSIVE RStrip(_)
RStrip(s) ==
    IF s # <<>> /\ IsSpace(s[Len(s)]) THEN RStrip(SubSeq(s, 1, Len(s) - 1)) ELSE s

\* str.strip()
Strip(s) == RStrip(LStrip(s))

\* position of the first ")" at or after position i, 0 when there is none
RECURSIVE FindClose(_, _)
FindClose(s, i) ==
    IF i > Len(s) THEN 0
    ELSE IF s[i] = ")" THEN i
    ELSE FindClose(s, i + 1)

\* re.sub(r"\(.*?\)", "", s): leftmost, non-greedy, non-overlapping
RECURSIVE RemoveParens(_)
RemoveParens(s) ==
    IF s = <<>> THEN <<>>
    ELSE IF Head(s) = "(" /\ FindClose(s, 2) # 0
         THEN RemoveParens(SubSeq(s, FindClose(s, 2) + 1, Len(s)))
         ELSE <<Head(s)>> \o RemoveParens(Tail(s))

\* s.replace("&", "and")
RECURSIVE ReplaceAmp(_)
ReplaceAmp(s) ==
    IF s = <<>> THEN <<>>
    ELSE (IF Head(s) = "&" THEN <<"a", "n", "d">> ELSE <<Head(s)>>)
         \o ReplaceAmp(Tail(s))

\* re.sub(r"[^\w\s]", " ", s)
PunctToSpace(s) ==
    [i \in 1..Len(s) |-> IF s[i] \in WordChars \/ IsSpace(s[i]) THEN s[i] ELSE " "]

\* re.sub(r"\s+", " ", s)
RECURSIVE CollapseSpaces(_)
CollapseSpaces(s) ==
    IF s = <<>> THEN <<>>
    ELSE IF IsSpace(Head(s))
         THEN <<" ">> \o CollapseSpaces(LStrip(s))
         ELSE <<Head(s)>> \o CollapseSpaces(Tail(s))

\* lines 135-139: everything before the article loop
Clean(t) ==
    Strip(CollapseSpaces(PunctToSpace(ReplaceAmp(RemoveParens(Strip(Lower(t)))))))

\* the list the loop of line 141 iterates over, in its order
Articles == << <<"t", "h", "e", " ">>, <<"a", " ">>, <<"a", "n", " ">> >>

\* s.startswith(p)
StartsWith(s, p) == Len(s) >= Len(p) /\ SubSeq(s, 1, Len(p)) = p

\* lines 142-143: one iteration of the loop
StripArticle(s, article) ==
    IF StartsWith(s, article) THEN SubSeq(s, Len(article) + 1, Len(s)) ELSE s

\* a loop that stops at the first article it strips
StripFirstArticleOnly(s) ==
    IF StartsWith(s, Articles[1]) THEN StripArticle(s, Articles[1])
    ELSE IF StartsWith(s, Articles[2]) THEN StripArticle(s, Articles[2])
    ELSE StripArticle(s, Articles[3])

\* lines 141-143: the loop, one test per article, no break
StripArticles(s) ==
    StripArticle(StripArticle(StripArticle(s, Articles[1]), Articles[2]), Articles[3])

\* lines 133-144, for a str argument
normalize_title(t) ==
    IF t = <<>> THEN <<>> ELSE StripArticles(Clean(t))

(***************************************************************************)
(* SpecNorm: normalize_title applied once and twice to a bounded title     *)
(***************************************************************************)
Pieces ==
    { <<"t", "h", "e", " ">>, <<"a", " ">>, <<"a", "n", " ">>,
      <<"a">>, <<"A">>, <<"f">>, <<" ">>, <<"(">>, <<")">>, <<"&">>, <<"-">> }

RECURSIVE Concat(_)
Concat(ps) == IF ps = <<>> THEN <<>> ELSE Head(ps) \o Concat(Tail(ps))

TitleInputs ==
    { Concat(ps) : ps \in UNION { [1..n -> Pieces] : n \in 0..MaxPieces } }

InitNorm ==
    /\ title \in TitleInputs
    /\ norm1 = <<>>
    /\ norm2 = <<>>
    /\ npc = "input"
    /\ stage = "IDLE"
    /\ files = NotYet
    /\ scorer = <<>>
    /\ raw = NotYet
    /\ bom = NotYet
    /\ bom_rt = NotYet
    /\ bom_df = NotYet
    /\ match_results = <<>>
    /\ scored = {}
    /\ full = NotYet
    /\ filtered = NotYet
    /\ final = NotYet
    /\ merged_csv = NotYet
    /\ diag_csv = NotYet
    /\ log_files = {}
    /\ now = 0
    /\ log_lines = <<>>
    /\ MoneyIdle /\ RequestIdle /\ CascadeIdle /\ ScrapeIdle

NormalizeOnce ==
    /\ npc = "input"
    /\ norm1' = normalize_title(title)
    /\ npc' = "once"
    /\ UNCHANGED <<title, norm2>>
    /\ UNCHANGED pipeVars
    /\ UNCHANGED runVars
    /\ UNCHANGED auxVars

NormalizeTwice ==
    /\ npc = "once"
    /\ norm2' = normalize_title(norm1)
    /\ npc' = "twice"
    /\ UNCHANGED <<title, norm1>>
    /\ UNCHANGED pipeVars
    /\ UNCHANGED runVars
    /\ UNCHANGED auxVars

NextNorm == NormalizeOnce \/ NormalizeTwice

vars == <<normVars, pipeVars, runVars, auxVars>>

SpecNorm == InitNorm /\ [][NextNorm]_vars

(***************************************************************************)
(* utils.parse_money                                                       *)
(***************************************************************************)
\* pieces of a money text joined into one argument
MaxMoneyPieces == 3

\* the values of the variables of the merge pipeline and of normalize_title
\* while another part of the program is looked at
PipelineIdle ==
    /\ title = <<>> /\ norm1 = <<>> /\ norm2 = <<>> /\ npc = "idle"
    /\ stage = "IDLE" /\ files = NotYet /\ scorer = <<>>
    /\ raw = NotYet /\ bom = NotYet /\ bom_rt = NotYet /\ bom_df = NotYet
    /\ match_results = <<>> /\ scored = {}
    /\ full = NotYet /\ filtered = NotYet /\ final = NotYet
    /\ merged_csv = NotYet /\ diag_csv = NotYet
    /\ log_files = {} /\ now = 0 /\ log_lines = <<>>

\* lines 147-172. An integer is kept as its sign and its decimal digits, so
\* that int(float(t) * 10^k) is a shift of the decimal point followed by the
\* truncation of the fraction. float() is modelled for the texts made of
\* MoneyPieces: an optional "-", digits with at most one ".", "inf" and
\* "nan"; int() of an infinite float raises OverflowError, which the
\* except clause of line 171 does not catch, and int() of a NaN raises
\* ValueError, which it does.
parse_money(text) ==
    LET Returned(v) == [kind |-> "returned", value |-> v]
        Raised(e) == [kind |-> e, value |-> Null]
        Digit == {"0", "1", "2", "3", "4", "5", "6", "7", "8", "9"}
        Without(t, c) == SelectSeq(t, LAMBDA x : x # c)
        EndsWith(t, cs) == t # <<>> /\ t[Len(t)] \in cs
        IntOfFloat(t0, k) ==
            LET t1 == Strip(t0)
                neg == t1 # <<>> /\ Head(t1) = "-"
                t == IF neg THEN Tail(t1) ELSE t1
                dots == {i \in 1..Len(t) : t[i] = "."}
                dot == IF dots = {} THEN Len(t) + 1 ELSE CHOOSE i \in dots : TRUE
                ip == SubSeq(t, 1, dot - 1)
                fp == SubSeq(t, dot + 1, Len(t)) \o [i \in 1..k |-> "0"]
                shifted == ip \o SubSeq(fp, 1, k)
                nz == {i \in 1..Len(shifted) : shifted[i] # "0"}
                first == CHOOSE i \in nz : \A j \in nz : i <= j
            IN IF t = <<"i", "n", "f">> THEN Raised("OverflowError")
               ELSE IF t = <<"n", "a", "n">> THEN Returned(Null)
               ELSE IF \/ Cardinality(dots) > 1
                       \/ Len(t) = Cardinality(dots)
                       \/ \E i \in 1..Len(t) : t[i] \notin Digit \cup {"."}
                    THEN Returned(Null)
               ELSE IF nz = {}
                    THEN Returned(Some([neg |-> FALSE, digits |-> <<"0">>]))
               ELSE Returned(Some([neg |-> neg,
                                   digits |-> SubSeq(shifted, first, Len(shifted))]))
        stripped == Strip(text)
        bare == Strip(Without(Without(stripped, "$"), ","))
        body == SubSeq(bare, 1, Len(bare) - 1)
    IN IF text = <<>> THEN Returned(Null)
       ELSE IF stripped \in {<<"-">>, <<"n", "/", "a">>, <<"N", "/", "A">>, <<>>}
            THEN Returned(Null)
       ELSE IF EndsWith(bare, {"B", "b"}) THEN IntOfFloat(body, 9)
       ELSE IF EndsWith(bare, {"M", "m"}) THEN IntOfFloat(body, 6)
       ELSE IF EndsWith(bare, {"K", "k"}) THEN IntOfFloat(body, 3)
       ELSE IntOfFloat(bare, 0)

\* the texts parse_money is called on: budget cells as the budget pages write
\* them, placeholders, and texts that are not amounts
MoneyPieces ==
    { <<"$">>, <<",">>, <<"-">>, <<".">>, <<"1">>, <<"2">>, <<"4", "0", "0">>,
      <<"1", ".", "2">>, <<"M">>, <<"B">>, <<"K">>, <<"m">>, <<" ">>,
      <<"n", "/", "a">>, <<"i", "n", "f">>, <<"n", "a", "n">> }

\* one call of parse_money
ParseMoney ==
    /\ money_result.kind = "pending"
    /\ money_result' = parse_money(money_text)
    /\ UNCHANGED <<money_text, normVars, pipeVars, runVars, reqVars, casVars,
                   scVars>>

InitMoney ==
    /\ \E n \in 0..MaxMoneyPieces : \E ps \in [1..n -> MoneyPieces] :
          money_text = Concat(ps)
    /\ money_result = [kind |-> "pending", value |-> Null]
    /\ PipelineIdle /\ RequestIdle /\ CascadeIdle /\ ScrapeIdle

SpecMoney == InitMoney /\ [][ParseMoney]_vars

(***************************************************************************)
(* utils.make_request                                                      *)
(***************************************************************************)
\* config.MAX_RETRIES, the default of max_retries
MAX_RETRIES == 3
\* the largest max_retries a caller passes explicitly
MaxRetriesArg == 2

\* what one requester.get can do: answer with a status code, or raise
RequestOutcomes ==
    { [kind |-> "response", status |-> c] :
        c \in {200, 204, 403, 404, 429, 499, 500, 503} }
    \cup { [kind |-> e, status |-> 0] :
             e \in {"ConnectionError", "Timeout", "TooManyRedirects"} }

\* every status but 200 retried
AfterGetRetriesErrors(o) ==
    IF o.kind = "response"
    THEN IF o.status = 200 THEN "return" ELSE "retry"
    ELSE IF o.kind \in {"ConnectionError", "Timeout"} THEN "retry"
    ELSE "raise"

\* lines 78-110: what the loop body does with the outcome of the GET
AfterGet(o) ==
    IF o.kind = "response"
    THEN IF o.status = 200 THEN "return"
         ELSE IF o.status = 429 THEN "retry"
         ELSE IF o.status = 403 THEN "retry"
         ELSE IF o.status >= 500 THEN "retry"
         ELSE "return"
    ELSE IF o.kind \in {"ConnectionError", "Timeout"} THEN "retry"
    ELSE "raise"

\* lines 76-110: one pass of the loop, the sleeps included
MakeRequestGet ==
    /\ req_result.kind = "pending"
    /\ Len(req_trace) < req_max
    /\ \E o \in RequestOutcomes :
          /\ req_trace' = Append(req_trace, o)
          /\ req_result' =
                CASE AfterGet(o) = "return" -> [kind |-> "response", status |-> o.status]
                  [] AfterGet(o) = "retry" -> req_result
                  [] OTHER -> [kind |-> "raised", status |-> 0]
    /\ UNCHANGED <<req_max, normVars, pipeVars, runVars, moneyVars, casVars,
                   scVars>>

\* lines 111-112: the loop is over and None is returned
MakeRequestGiveUp ==
    /\ req_result.kind = "pending"
    /\ Len(req_trace) >= req_max
    /\ req_result' = [kind |-> "none", status |-> 0]
    /\ UNCHANGED <<req_max, req_trace, normVars, pipeVars, runVars, moneyVars,
                   casVars, scVars>>

\* one call of make_request (lines 48-112); the call is sequential code whose
\* sleeps and GETs (bounded by the timeout) end, hence the fairness
InitRequest ==
    /\ \E arg \in {Null} \cup {Some(n) : n \in 0..MaxRetriesArg} :
          req_max = IF arg = Null THEN MAX_RETRIES ELSE arg[1]
    /\ req_trace = <<>>
    /\ req_result = [kind |-> "pending", status |-> 0]
    /\ PipelineIdle /\ MoneyIdle /\ CascadeIdle /\ ScrapeIdle

NextRequest ==
    \/ MakeRequestGet
    \/ MakeRequestGiveUp

SpecRequest == InitRequest /\ [][NextRequest]_vars /\ WF_vars(NextRequest)

(***************************************************************************)
(* 04_scrape_rotten_tomatoes: the cascade that finds the review page        *)
(***************************************************************************)
\* slug candidates of one film
MaxSlugs == 2

\* `sub in s` of Python, for strings
Contains(s, sub) ==
    \E i \in 1..(Len(s) - Len(sub) + 1) : SubSeq(s, i, i + Len(sub) - 1) = sub

\* URLs are written without "https://www.rottentomatoes.com", which has
\* neither "/m/" nor "search" in it
MovieUrl(slug) == <<"/", "m", "/">> \o slug
SearchUrl == <<"/", "s", "e", "a", "r", "c", "h", "?">>

\* what make_request gives for a page: None, or a response with its status,
\* the URL it ended at (resp.url, after redirects) and the kind of its text
PageAnswer(kind, url) ==
    CASE kind = "none" -> Null
      [] kind = "404" -> Some([status |-> 404, url |-> url, page |-> "error"])
      [] kind = "to_search" ->
            Some([status |-> 200, url |-> SearchUrl, page |-> "search"])
      [] OTHER -> Some([status |-> 200, url |-> url, page |-> kind])

\* extract_rt_data (lines 85-162), by the kind of page: a page with the
\* embedded score data, or a skeleton page without them
extract_rt_data(page) ==
    IF page = "scores"
    THEN [tomatometer |-> Some(75), audience_score |-> Some(80),
          rt_rating |-> Some("R"), rt_title |-> Some("title")]
    ELSE [tomatometer |-> Null, audience_score |-> Null, rt_rating |-> Null,
          rt_title |-> IF page = "skeleton" THEN Some("title") ELSE Null]

\* lines 322-379 for one film, with try_direct_url (lines 167-182): film.slugs
\* is construct_rt_slugs(title, year), film.direct[k] the answer to the GET of
\* the page of slug k, film.search the URL try_search returns (or None) and
\* film.found the answer to the GET of that URL
Cascade(film) ==
    LET Direct(k) ==
            LET resp == film.direct[k]
            IN IF /\ resp # Null
                  /\ resp[1].status = 200
                  /\ Contains(resp[1].url, <<"/", "m", "/">>)
                  /\ ~Contains(resp[1].url, <<"s", "e", "a", "r", "c", "h">>)
               THEN resp ELSE Null
        n == Len(film.slugs)
        hits == {k \in 1..n : Direct(k) # Null}
        first == CHOOSE k \in hits : \A j \in hits : k <= j
        last == IF hits = {} THEN n ELSE first
        probes == [k \in 1..last |-> [kind |-> "direct", url |-> MovieUrl(film.slugs[k])]]
        viaSearch == hits = {} /\ film.search # Null
        page == IF viaSearch THEN film.found ELSE Null
        found == IF hits # {} THEN Direct(first)
                 ELSE IF page # Null /\ page[1].status = 200 THEN page ELSE Null
        method == IF hits # {} THEN "direct_url"
                  ELSE IF found # Null THEN "search" ELSE "unmatched"
    IN [requests |->
            probes
            \o (IF hits = {} THEN <<[kind |-> "search", url |-> SearchUrl]>> ELSE <<>>)
            \o (IF viaSearch THEN <<[kind |-> "page", url |-> film.search[1]]>>
                ELSE <<>>),
        record |->
            IF found # Null
            THEN extract_rt_data(found[1].page)
                 @@ [bom_release_id |-> Some(film.id),
                     title_searched |-> Some(film.title),
                     rt_url |-> IF hits # {} THEN Some(MovieUrl(film.slugs[first]))
                                ELSE film.search,
                     match_method |-> Some(method)]
            ELSE [bom_release_id |-> Some(film.id),
                  title_searched |-> Some(film.title), rt_url |-> Null,
                  tomatometer |-> Null, audience_score |-> Null,
                  rt_rating |-> Null, match_method |-> Some("unmatched"),
                  rt_title |-> Null]]

\* the slugs of the films "Up" (with its year-suffixed form) and "Research"
SlugNames ==
    { <<"u", "p">>, <<"u", "p", "_", "2", "3">>,
      <<"r", "e", "s", "e", "a", "r", "c", "h">> }

\* one film with its slug candidates (no slug twice, lines 75-81) and the
\* answers of the site
CascadeFilms ==
    \E n \in 1..MaxSlugs : \E sl \in [1..n -> SlugNames] :
    \E a \in [1..n -> {"none", "404", "scores", "skeleton", "to_search"}] :
    \E sr \in {Null} \cup {Some(MovieUrl(x)) : x \in SlugNames} :
    \E fa \in {"none", "404", "scores", "skeleton"} :
        /\ \A i, j \in 1..n : sl[i] = sl[j] => i = j
        /\ cas_film =
              [id |-> "A", title |-> "title", slugs |-> sl,
               direct |-> [k \in 1..n |-> PageAnswer(a[k], MovieUrl(sl[k]))],
               search |-> sr,
               found |-> IF sr = Null THEN Null ELSE PageAnswer(fa, sr[1])]

\* the cascade run for the film
RunCascade ==
    /\ cas_done = <<>>
    /\ cas_done' = Cascade(cas_film)
    /\ UNCHANGED <<cas_film, normVars, pipeVars, runVars, moneyVars, reqVars,
                   scVars>>

InitCascade ==
    /\ CascadeFilms
    /\ cas_done = <<>>
    /\ PipelineIdle /\ MoneyIdle /\ RequestIdle /\ ScrapeIdle

SpecCascade == InitCascade /\ [][RunCascade]_vars

(***************************************************************************)
(* config.py                                                               *)
(***************************************************************************)
START_DATE == <<2021, 9, 1>>
END_DATE == <<2026, 2, 7>>
MIN_OPENING_THEATERS == 600
RD_THRESHOLD == 60
IN_THEATERS_WINDOW_DAYS == 56
FUZZY_MATCH_ACCEPT_THRESHOLD == 85
FUZZY_MATCH_REVIEW_THRESHOLD == 70

(***************************************************************************)
(* Calendar dates <<year, month, day>> and utils.parse_date                *)
(***************************************************************************)
IsLeap(y) == (y % 4 = 0 /\ y % 100 # 0) \/ y % 400 = 0

DaysInMonth(y, m) ==
    IF m = 2 THEN (IF IsLeap(y) THEN 29 ELSE 28)
    ELSE IF m \in {4, 6, 9, 11} THEN 30 ELSE 31

ValidDate(y, m, d) == m \in 1..12 /\ d >= 1 /\ d <= DaysInMonth(y, m)

RECURSIVE DaysBeforeMonth(_, _)
DaysBeforeMonth(y, m) ==
    IF m = 1 THEN 0 ELSE DaysBeforeMonth(y, m - 1) + DaysInMonth(y, m - 1)

\* datetime.date.toordinal: what date comparison and timedelta work on
Ordinal(dt) ==
    LET y == dt[1] - 1
    IN y * 365 + (y \div 4) - (y \div 100) + (y \div 400)
       + DaysBeforeMonth(dt[1], dt[2]) + dt[3]

\* the default formats of parse_date, in the order they are tried
DateFormats == <<"%b %d, %Y", "%B %d, %Y", "%Y-%m-%d", "%m/%d/%Y">>

\* A date text is a record [fmt, y, m, d]: the surface format it is written
\* in and the fields it spells.  parse_date returns the date of the first
\* format that accepts the text, None when none does.
parse_date(text) ==
    IF /\ \E k \in 1..Len(DateFormats) : DateFormats[k] = text.fmt
       /\ ValidDate(text.y, text.m, text.d)
    THEN Some(<<text.y, text.m, text.d>>)
    ELSE Null

(***************************************************************************)
(* merge_bom                                                               *)
(***************************************************************************)
\* df.columns: the header of the file; the fields of a row are the columns
\* of its table
Columns(rows, header) == IF rows = <<>> THEN header ELSE DOMAIN rows[1]

\* the columns merge_bom selects from bom_index (lines 46-47) and from
\* bom_details (lines 48-50); selecting an absent one raises KeyError
IndexCols ==
    {"bom_release_id", "title", "total_gross", "release_date_raw", "bom_year",
     "distributor"}
DetailCols ==
    {"bom_release_id", "opening_wknd_gross", "opening_wknd_theaters",
     "domestic_gross", "mpaa_rating", "release_date", "distributor"}

\* Series.fillna(other)
fillna(x, other) == IF NotNull(x) THEN x ELSE other

\* a join by row position instead of by key: left row k with right row k
LeftMergeByPosition(left, right, nullRow) ==
    [k \in 1..Len(left) |->
        <<left[k], IF k <= Len(right) THEN right[k] ELSE nullRow>>]

\* pd.merge(left, right, on="bom_release_id", how="left"): the pairs
\* <<left row, right row>> in left order; a left row without a partner is
\* paired with the all-null row, one with several is paired with each
RECURSIVE LeftMerge(_, _, _)
LeftMerge(left, right, nullRow) ==
    IF left = <<>> THEN <<>>
    ELSE LET l == Head(left)
             m == SelectSeq(right, LAMBDA r : r.bom_release_id = l.bom_release_id)
         IN (IF m = <<>> THEN << <<l, nullRow>> >>
             ELSE [k \in 1..Len(m) |-> <<l, m[k]>>])
            \o LeftMerge(Tail(left), right, nullRow)

\* f"{raw}, {year}" (line 72)
WithYear(rawText, year) ==
    [fmt |-> IF rawText.fmt = "%b %d" THEN "%b %d, %Y"
             ELSE IF rawText.fmt = "%B %d" THEN "%B %d, %Y"
             ELSE "other",
     y |-> year, m |-> rawText.m, d |-> rawText.d]

\* a detail date that is present settles the result, parseable or not
ResolveDetailDateFinal(release_date, release_date_raw, bom_year) ==
    IF NotNull(release_date)
    THEN parse_date(Val(release_date))
    ELSE IF NotNull(release_date_raw) /\ NotNull(bom_year)
         THEN parse_date(WithYear(Val(release_date_raw), Val(bom_year)))
         ELSE Null

\* lines 62-75
resolve_release_date(release_date, release_date_raw, bom_year) ==
    IF NotNull(release_date) /\ NotNull(parse_date(Val(release_date)))
    THEN parse_date(Val(release_date))
    ELSE IF NotNull(release_date_raw) /\ NotNull(bom_year)
         THEN parse_date(WithYear(Val(release_date_raw), Val(bom_year)))
         ELSE Null

NullDetail ==
    [bom_release_id |-> Null, opening_wknd_gross |-> Null,
     opening_wknd_theaters |-> Null, domestic_gross |-> Null,
     mpaa_rating |-> Null, release_date |-> Null, distributor |-> Null]

\* the index value preferred, the detail value as the fallback
BomRowIndexFirst(l, d) ==
    [bom_release_id |-> l.bom_release_id,
     title |-> l.title,
     release_date_parsed |->
        resolve_release_date(d.release_date, l.release_date_raw, l.bom_year),
     bom_year |-> l.bom_year,
     opening_wknd_gross |-> d.opening_wknd_gross,
     opening_wknd_theaters |-> d.opening_wknd_theaters,
     domestic_gross |-> fillna(l.total_gross, d.domestic_gross),
     distributor |-> fillna(l.distributor, d.distributor),
     mpaa_rating |-> d.mpaa_rating]

\* lines 56-86, for one row of the join
BomRow(l, d) ==
    [bom_release_id |-> l.bom_release_id,
     title |-> l.title,
     release_date_parsed |->
        resolve_release_date(d.release_date, l.release_date_raw, l.bom_year),
     bom_year |-> l.bom_year,
     opening_wknd_gross |-> d.opening_wknd_gross,
     opening_wknd_theaters |-> d.opening_wknd_theaters,
     domestic_gross |-> fillna(d.domestic_gross, l.total_gross),
     distributor |-> fillna(d.distributor, l.distributor),
     mpaa_rating |-> d.mpaa_rating]

\* lines 42-89
merge_bom(bom_index, bom_details) ==
    LET j == LeftMerge(bom_index, bom_details, NullDetail)
    IN [k \in 1..Len(j) |-> BomRow(j[k][1], j[k][2])]

(***************************************************************************)
(* merge_rt                                                                *)
(***************************************************************************)
NullRt ==
    [bom_release_id |-> Null, tomatometer |-> Null, audience_score |-> Null,
     rt_rating |-> Null, match_method |-> Null]

\* rt_cols (lines 94-98)
RtCols ==
    {"bom_release_id", "tomatometer", "audience_score", "rt_rating",
     "match_method"}

\* the review rating preferred to the box-office one
RtRowReviewRatingFirst(b, r) ==
    LET m == b @@ [c \in DOMAIN r \ {"bom_release_id"} |-> r[c]]
    IN IF "rt_rating" \in DOMAIN m
       THEN [m EXCEPT !.mpaa_rating = fillna(m.rt_rating, m.mpaa_rating)]
       ELSE m

\* lines 101-105, for one row of the join: the columns of the review row
\* are added, and the rating is filled when rt_rating is among them
RtRow(b, r) ==
    LET m == b @@ [c \in DOMAIN r \ {"bom_release_id"} |-> r[c]]
    IN IF "rt_rating" \in DOMAIN m
       THEN [m EXCEPT !.mpaa_rating = fillna(m.mpaa_rating, m.rt_rating)]
       ELSE m

\* lines 92-111; rt_subset (line 99) holds the columns of rt_cols that the
\* review table has
merge_rt(bomTable, rt_scores) ==
    LET cols == RtCols \cap Columns(rt_scores, RtCols)
        rt_subset == [k \in 1..Len(rt_scores) |-> [c \in cols |-> rt_scores[k][c]]]
        j == LeftMerge(bomTable, rt_subset, [c \in cols |-> Null])
    IN [k \in 1..Len(j) |-> RtRow(j[k][1], j[k][2])]

\* line 101 raises KeyError without the key column, lines 107-108 without
\* a score column
MergeRtRaises(rt_scores) ==
    ~({"bom_release_id", "tomatometer", "audience_score"}
          \subseteq Columns(rt_scores, RtCols))

(***************************************************************************)
(* fuzzy_match_budgets                                                     *)
(***************************************************************************)
\* lambda d: d.year if d else None (lines 125-127)
YearOf(date) == IF NotNull(date) THEN Some(Val(date)[1]) ELSE Null

\* fuzz.token_sort_ratio(query, choice): the score the library gives the pair
token_sort_ratio(query, choice) == scorer[<<query, choice>>]

\* a block of two years either side
YearInBlockWide(tnRow, year) ==
    /\ NotNull(tnRow.release_year)
    /\ year - 2 <= Val(tnRow.release_year)
    /\ Val(tnRow.release_year) <= year + 2

\* Series.between(lo, hi) on tn_df["release_year"] (line 156)
YearInBlock(tnRow, year) ==
    /\ NotNull(tnRow.release_year)
    /\ year - 1 <= Val(tnRow.release_year)
    /\ Val(tnRow.release_year) <= year + 1

\* no year blocking: the whole budget table
CandidatesUnblocked(bomRow, tn) == tn

\* lines 154-159
Candidates(bomRow, tn) ==
    IF NotNull(bomRow.release_year)
    THEN SelectSeq(tn, LAMBDA t : YearInBlock(t, Val(bomRow.release_year)))
    ELSE tn

\* an equal score replaces the best one so far: the last of equals wins
BetterOrEqual(sc, best) == best = Null \/ sc >= Val(best)[1]

\* does a new score replace the best one so far (extractOne keeps the first
\* of equal scores)
Better(sc, best) == best = Null \/ sc > Val(best)[1]

\* process.extractOne(query, choices, scorer=..., score_cutoff=0): the loop
\* over the choices from position k on; best is Null or <<score, position>>.
\* A missing choice is skipped; a score of 100 ends the loop.
RECURSIVE ExtractLoop(_, _, _, _)
ExtractLoop(query, choices, k, best) ==
    IF k > Len(choices) THEN best
    ELSE IF choices[k] = Null THEN ExtractLoop(query, choices, k + 1, best)
    ELSE LET sc == token_sort_ratio(query, Val(choices[k]))
             nb == IF sc >= 0 /\ Better(sc, best) THEN Some(<<sc, k>>) ELSE best
         IN IF sc = 100 THEN nb ELSE ExtractLoop(query, choices, k + 1, nb)

extractOne(query, choices) == ExtractLoop(query, choices, 1, Null)

\* the positions of choices that extractOne hands to the scorer
RECURSIVE ScoredLoop(_, _, _)
ScoredLoop(query, choices, k) ==
    IF k > Len(choices) THEN {}
    ELSE IF choices[k] = Null THEN ScoredLoop(query, choices, k + 1)
    ELSE {k} \cup (IF token_sort_ratio(query, Val(choices[k])) = 100 THEN {}
                   ELSE ScoredLoop(query, choices, k + 1))

\* the accept threshold compared with > instead of >=
MatchStatusStrict(score) ==
    IF score > FUZZY_MATCH_ACCEPT_THRESHOLD THEN "matched"
    ELSE IF score >= FUZZY_MATCH_REVIEW_THRESHOLD THEN "review"
    ELSE "unmatched"

\* lines 194-199
MatchStatus(score) ==
    IF score >= FUZZY_MATCH_ACCEPT_THRESHOLD THEN "matched"
    ELSE IF score >= FUZZY_MATCH_REVIEW_THRESHOLD THEN "review"
    ELSE "unmatched"

\* the record appended at lines 144-151, 162-169 and 181-188
NoMatch ==
    [tn_title_matched |-> Null, tn_match_score |-> 0,
     production_budget |-> Null, tn_domestic_gross |-> Null,
     tn_match_status |-> "unmatched"]

\* tn_row.get(col) (lines 205-206): None when the table has no such column
Get(row, col) == IF col \in DOMAIN row THEN row[col] ELSE Null

\* lines 191-208
MatchOf(tnRow, score) ==
    [tn_title_matched |-> tnRow.title, tn_match_score |-> score,
     production_budget |-> Get(tnRow, "production_budget"),
     tn_domestic_gross |-> Get(tnRow, "domestic_gross"),
     tn_match_status |-> MatchStatus(score)]

TitlesOf(cands) == [k \in 1..Len(cands) |-> cands[k].title_normalized]

\* the position extractOne returns looked up in the whole budget table
\* instead of in the candidates
MatchRowIndexesTable(bomRow, tn) ==
    IF bomRow.title_norm = <<>> THEN NoMatch
    ELSE LET cands == Candidates(bomRow, tn)
         IN IF cands = <<>> THEN NoMatch
            ELSE LET result == extractOne(bomRow.title_norm, TitlesOf(cands))
                 IN IF result = Null THEN NoMatch
                    ELSE MatchOf(tn[Val(result)[2]], Val(result)[1])

\* lines 140-208: the body of the loop for one row
MatchRow(bomRow, tn) ==
    IF bomRow.title_norm = <<>> THEN NoMatch
    ELSE LET cands == Candidates(bomRow, tn)
         IN IF cands = <<>> THEN NoMatch
            ELSE LET result == extractOne(bomRow.title_norm, TitlesOf(cands))
                 IN IF result = Null THEN NoMatch
                    ELSE MatchOf(cands[Val(result)[2]], Val(result)[1])

\* the candidates of the row that the scorer is invoked on
ScoredFor(bomRow, tn) ==
    IF bomRow.title_norm = <<>> THEN {}
    ELSE LET cands == Candidates(bomRow, tn)
         IN ScoredLoop(bomRow.title_norm, TitlesOf(cands), 1)

\* the columns of the_numbers_budgets.csv
TnCols ==
    {"title", "title_normalized", "release_year", "production_budget",
     "domestic_gross"}

\* lines 129-134: the copy of the budget table the loop works on; a table
\* without title_normalized gets it from its titles
TnDf(tn) ==
    IF "title_normalized" \in Columns(tn, TnCols) THEN tn
    ELSE [k \in 1..Len(tn) |->
            tn[k] @@ [title_normalized |-> Some(normalize_title(Val(tn[k].title)))]]

\* lines 131-134 raise: line 132 reads the titles (KeyError without the
\* column, AttributeError on a missing title), line 134 reads the very
\* column it has just found absent
TnDfRaises(tn) ==
    LET cols == Columns(tn, TnCols)
    IN \/ /\ "title_normalized" \notin cols
          /\ \/ "title" \notin cols
             \/ \E k \in 1..Len(tn) : tn[k].title = Null
       \/ "release_year" \notin cols

\* line 203 raises KeyError when a candidate was found in a budget table
\* that has no title column
MatchRaises(bomRow, tn) ==
    "title" \notin Columns(tn, TnCols) /\ ScoredFor(bomRow, tn) # {}

(***************************************************************************)
(* apply_study_filters                                                     *)
(***************************************************************************)
\* the window closed at its start only: start <= d < end
InDateWindowEndExclusive(row) ==
    /\ NotNull(row.release_date_parsed)
    /\ Ordinal(START_DATE) <= Ordinal(Val(row.release_date_parsed))
    /\ Ordinal(Val(row.release_date_parsed)) < Ordinal(END_DATE)

\* lines 235-237
InDateWindow(row) ==
    /\ NotNull(row.release_date_parsed)
    /\ Ordinal(START_DATE) <= Ordinal(Val(row.release_date_parsed))
    /\ Ordinal(Val(row.release_date_parsed)) <= Ordinal(END_DATE)

\* a missing theater count passes the filter
WideReleaseKeepsNull(row) ==
    \/ row.opening_wknd_theaters = Null
    \/ Val(row.opening_wknd_theaters) >= MIN_OPENING_THEATERS

\* line 242
WideRelease(row) ==
    /\ NotNull(row.opening_wknd_theaters)
    /\ Val(row.opening_wknd_theaters) >= MIN_OPENING_THEATERS

\* lines 228-245
apply_study_filters(rows) == SelectSeq(SelectSeq(rows, InDateWindow), WideRelease)

\* the theater filter applied and logged before the date filter
StudyFilterLogWideFirst(rows) ==
    LET wide == SelectSeq(rows, WideRelease)
        dated == SelectSeq(wide, InDateWindow)
    IN << [line |-> "After wide release filter", rows |-> Len(wide),
           removed |-> Len(rows) - Len(wide)],
          [line |-> "After date filter", rows |-> Len(dated),
           removed |-> Len(wide) - Len(dated)] >>

\* the two log lines of apply_study_filters (lines 238 and 243): the rows
\* left after each filter and the rows it removed
study_filter_log(rows) ==
    LET dated == SelectSeq(rows, InDateWindow)
        wide == SelectSeq(dated, WideRelease)
    IN << [line |-> "After date filter", rows |-> Len(dated),
           removed |-> Len(rows) - Len(dated)],
          [line |-> "After wide release filter", rows |-> Len(wide),
           removed |-> Len(dated) - Len(wide)] >>

(***************************************************************************)
(* construct_rdd_variables                                                 *)
(***************************************************************************)
\* df[col] - config.RD_THRESHOLD: NaN stays NaN
Centered(score) == IF NotNull(score) THEN Some(Val(score) - RD_THRESHOLD) ELSE Null

\* the cutoff itself counted as below: score > threshold
IsFreshStrict(score) ==
    IF NotNull(score) /\ Val(score) > RD_THRESHOLD THEN Some(1) ELSE Some(0)

\* (df[col] >= config.RD_THRESHOLD).astype("Int64"): the comparison of a
\* float column is False on NaN, and False becomes 0
IsFresh(score) ==
    IF NotNull(score) /\ Val(score) >= RD_THRESHOLD THEN Some(1) ELSE Some(0)

\* np.log(col.clip(lower=1).astype(float)): the logarithm is kept as its
\* argument; NaN stays NaN
LogClipped(x) ==
    IF NotNull(x) THEN Some([ln |-> IF Val(x) < 1 THEN 1 ELSE Val(x)]) ELSE Null

\* the budget floored at 1 like the other logged columns
LogBudgetFloored(x) == LogClipped(x)

\* lines 264-268
LogBudget(x) == IF NotNull(x) /\ Val(x) > 0 THEN LogClipped(x) ELSE Null

\* a release on the cutoff day itself not counted as in progress
InTheatersStrict(date) ==
    /\ NotNull(date)
    /\ Ordinal(Val(date)) > Ordinal(END_DATE) - IN_THEATERS_WINDOW_DAYS

\* lines 275-278
InTheaters(date) ==
    /\ NotNull(date)
    /\ Ordinal(Val(date)) >= Ordinal(END_DATE) - IN_THEATERS_WINDOW_DAYS

\* lines 250-278, for one row
RddRow(r) ==
    [r EXCEPT !.release_year = YearOf(r.release_date_parsed)]
    @@ [tomatometer_centered |-> Centered(r.tomatometer),
        audience_score_centered |-> Centered(r.audience_score),
        is_fresh_critic |-> IsFresh(r.tomatometer),
        is_fresh_audience |-> IsFresh(r.audience_score),
        log_opening_gross |-> LogClipped(r.opening_wknd_gross),
        log_total_gross |-> LogClipped(r.domestic_gross),
        log_theaters |-> LogClipped(r.opening_wknd_theaters),
        log_budget |-> LogBudget(r.production_budget),
        release_month |->
            IF NotNull(r.release_date_parsed)
            THEN Some(Val(r.release_date_parsed)[2]) ELSE Null,
        in_theaters |-> InTheaters(r.release_date_parsed)]

\* lines 248-283
construct_rdd_variables(rows) == [k \in 1..Len(rows) |-> RddRow(rows[k])]

\* the columns of output_cols (lines 337-349) that the model carries
OutputCols ==
    {"bom_release_id", "title", "release_date", "release_year", "release_month",
     "distributor", "mpaa_rating", "opening_wknd_gross", "opening_wknd_theaters",
     "domestic_gross", "production_budget", "tomatometer", "audience_score",
     "is_fresh_critic", "is_fresh_audience", "tomatometer_centered",
     "audience_score_centered", "log_opening_gross", "log_total_gross",
     "log_theaters", "log_budget", "in_theaters", "match_method",
     "tn_match_score", "tn_match_status"}

\* the columns of diag_cols (lines 288-292) that the model carries
DiagCols ==
    {"bom_release_id", "title", "release_year", "tomatometer", "audience_score",
     "match_method", "tn_title_matched", "tn_match_score", "tn_match_status",
     "production_budget"}

\* df[[c for c in cols if c in df.columns]]
SelectCols(rows, cols) ==
    [k \in 1..Len(rows) |-> [c \in cols \cap DOMAIN rows[k] |-> rows[k][c]]]

(***************************************************************************)
(* The input tables of Spec                                                *)
(***************************************************************************)
\* release identifiers, by row of bom_index.csv (01_scrape_bom_index drops
\* duplicate identifiers before it writes the file)
Ids == <<"A", "B", "C", "D">>

TitleTheF == <<"T", "h", "e", " ", "f">>
TitleF == <<"f">>
TitleG == <<"g">>
\* a title that normalizes to the empty string
TitleParenF == <<"(", "f", ")">>

\* a release date inside the study window, as the detail page writes it
DateInWindow == [fmt |-> "%b %d, %Y", y |-> 2022, m |-> 6, d |-> 14]

IndexRow(k, titleCell) ==
    [bom_release_id |-> Some(Ids[k]), title |-> titleCell,
     total_gross |-> Some(5000), release_date_raw |-> Null,
     bom_year |-> Some(2022), distributor |-> Some("index")]

DetailRow(id, dateCell, theatersCell) ==
    [bom_release_id |-> Some(id), opening_wknd_gross |-> Some(3000),
     opening_wknd_theaters |-> theatersCell, domestic_gross |-> Some(9000),
     mpaa_rating |-> Some("PG"), release_date |-> dateCell,
     distributor |-> Some("detail")]

\* the record 02_scrape_bom_details writes when the page could not be fetched
FailedDetailRow(id) == [NullDetail EXCEPT !.bom_release_id = Some(id)]

RtRowOf(id, tm, as) ==
    [bom_release_id |-> Some(id), tomatometer |-> tm, audience_score |-> as,
     rt_rating |-> Some("R"), match_method |-> Some("direct_url")]

\* the record 04_scrape_rotten_tomatoes writes for a film it did not find
UnmatchedRtRow(id) ==
    [NullRt EXCEPT !.bom_release_id = Some(id), !.match_method = Some("unmatched")]

\* "" written to a CSV cell is read back as NaN
CsvString(s) == IF s = <<>> THEN Null ELSE Some(s)

\* a row of the_numbers_budgets.csv as 03_scrape_the_numbers writes it
\* (title_normalized is normalize_title(title)); the budget tells rows apart
TnRow(t, yearCell, k) ==
    [title |-> Some(t), title_normalized |-> CsvString(normalize_title(t)),
     release_year |-> yearCell, production_budget |-> Some(1000 * k),
     domestic_gross |-> Some(7000)]

\* all sequences over S of a length in lo..hi
SeqsOf(S, lo, hi) == UNION { [1..n -> S] : n \in lo..hi }

\* the normalized titles the scorer is asked about
TargetNorms == {TitleF}
ChoiceNorms == {TitleF, TitleG}
ScoreValues == {0, 69, 70, 84, 85, 100}
Scorers == [TargetNorms \X ChoiceNorms -> ScoreValues]
PlainScorer == [p \in TargetNorms \X ChoiceNorms |-> IF p[1] = p[2] THEN 100 ELSE 70]

OneDetailEach(n) == [k \in 1..n |-> DetailRow(Ids[k], Some(DateInWindow), Some(700))]
OneRtEach(n) == [k \in 1..n |-> RtRowOf(Ids[k], Some(60), Some(59))]
PlainIndex(n) == [k \in 1..n |-> IndexRow(k, Some(TitleTheF))]
PlainTn == << TnRow(TitleF, Some(2022), 1) >>

Inputs(i, d, r, t) ==
    [bom_index |-> i, bom_details |-> d, rt_scores |-> r, tn_budgets |-> t]

\* the rows the right tables of the two exact joins are drawn from
DetailChoices ==
    { DetailRow(Ids[k], Some(DateInWindow), Some(700)) : k \in 1..MaxRows }
    \cup { FailedDetailRow(Ids[k]) : k \in 1..MaxRows }
RtChoices ==
    { RtRowOf(Ids[k], Some(60), Some(59)) : k \in 1..MaxRows }
    \cup { UnmatchedRtRow(Ids[k]) : k \in 1..MaxRows }

\* the detail table varies: any identifiers, in any order, repeated or absent
DetailJoinInputs ==
    \E n \in 1..MaxRows : \E d \in SeqsOf(DetailChoices, 0, MaxRight) :
        files = Inputs(PlainIndex(n), d, OneRtEach(n), PlainTn)

\* the review table varies likewise
ReviewJoinInputs ==
    \E n \in 1..MaxRows : \E r \in SeqsOf(RtChoices, 0, MaxRight) :
        files = Inputs(PlainIndex(n), OneDetailEach(n), r, PlainTn)

TnYears == {Null, Some(2020), Some(2021), Some(2023), Some(2024)}

\* the budget table of the <<title, year>> pairs of s
TnTable(s) == [k \in 1..Len(s) |-> TnRow(s[k][1], s[k][2], k)]

\* the release year of one film and those of the budget entries vary
BlockingInputs ==
    \E c \in {Null, Some(DateInWindow)} :
    \E s \in SeqsOf({TitleF} \X TnYears, 0, MaxTN) :
        files = Inputs(PlainIndex(1), <<DetailRow(Ids[1], c, Some(700))>>,
                       OneRtEach(1), TnTable(s))

\* one film: the scores and the titles of the budget entries vary
ScoringInputs ==
    \E s \in SeqsOf({TitleF, TitleTheF, TitleG} \X {Some(2022)},
                     1, MaxTN) :
        files = Inputs(PlainIndex(1), OneDetailEach(1), OneRtEach(1), TnTable(s))

\* the titles of the films vary
FilmTitleInputs ==
    \E s \in SeqsOf({Null, Some(TitleParenF), Some(TitleTheF)}, 1, MaxRows) :
    \E t \in {<<>>, PlainTn} :
        files = Inputs([k \in 1..Len(s) |-> IndexRow(k, s[k])],
                       OneDetailEach(Len(s)), OneRtEach(Len(s)), t)

\* the review scores vary
ScoreCells == {Null, Some(59), Some(60)}
VariableInputs ==
    \E n \in 1..MaxRows : \E c \in [1..n -> ScoreCells \X ScoreCells] :
        files = Inputs(PlainIndex(n), OneDetailEach(n),
                       [k \in 1..n |-> RtRowOf(Ids[k], c[k][1], c[k][2])],
                       PlainTn)

\* a release date as the detail page writes it ("Sep 1, 2021")
DetailDate(y, m, d) == [fmt |-> "%b %d, %Y", y |-> y, m |-> m, d |-> d]

\* release dates on and next to the two ends of the study window
WindowDateCells ==
    {Null, Some(DetailDate(2021, 8, 31)), Some(DetailDate(2021, 9, 1)),
     Some(DetailDate(2026, 2, 7)), Some(DetailDate(2026, 2, 8))}

\* the release dates of the films vary around the study window
WindowInputs ==
    \E n \in 1..MaxRows : \E c \in [1..n -> WindowDateCells] :
        files = Inputs(PlainIndex(n),
                       [k \in 1..n |-> DetailRow(Ids[k], c[k], Some(700))],
                       OneRtEach(n), PlainTn)

\* release dates on and next to the in-theaters cutoff (END_DATE minus
\* IN_THEATERS_WINDOW_DAYS days is December 13, 2025)
CutoffDateCells ==
    {Some(DetailDate(2025, 12, 12)), Some(DetailDate(2025, 12, 13)),
     Some(DetailDate(2025, 12, 14)), Some(DetailDate(2026, 2, 7))}

\* one film released around the in-theaters cutoff
CutoffInputs ==
    \E c \in CutoffDateCells :
        files = Inputs(PlainIndex(1), <<DetailRow(Ids[1], c, Some(700))>>,
                       OneRtEach(1), PlainTn)

\* both the release date and the theater count of a film vary, so that a
\* film can fail one filter, the other, or both
BothFilterInputs ==
    \E n \in 1..MaxRows :
    \E c \in [1..n -> {Null, Some(DetailDate(2021, 8, 31)), Some(DateInWindow)}
                       \X {Some(500), Some(700)}] :
        files = Inputs(PlainIndex(n),
                       [k \in 1..n |-> DetailRow(Ids[k], c[k][1], c[k][2])],
                       OneRtEach(n), PlainTn)

\* opening-weekend theater counts on and next to the minimum
TheaterCells == {Null, Some(500), Some(599), Some(600), Some(700)}

\* the theater counts of the films vary
TheaterInputs ==
    \E n \in 1..(MaxRows + 1) : \E c \in [1..n -> TheaterCells] :
        files = Inputs(PlainIndex(n),
                       [k \in 1..n |-> DetailRow(Ids[k], Some(DateInWindow), c[k])],
                       OneRtEach(n), PlainTn)

\* the detail and review tables vary as in the two families above, and
\* every row carries values that tell its release apart
KeyedInputs ==
    \E n \in {MaxRows} :
    \E d \in SeqsOf(1..MaxRows, 0, MaxRight) :
    \E r \in SeqsOf(1..MaxRows, 0, MaxRight) :
        files = Inputs(PlainIndex(n),
                       [k \in 1..Len(d) |->
                           [DetailRow(Ids[d[k]], Some(DateInWindow), Some(700 + d[k]))
                               EXCEPT !.opening_wknd_gross = Some(3000 + d[k])]],
                       [k \in 1..Len(r) |->
                           RtRowOf(Ids[r[k]], Some(60 + r[k]), Some(50 + r[k]))],
                       PlainTn)

\* one film: the gross and the distributor of the index and of the detail
\* page are each present or missing, or the film has no detail row
BomFieldInputs ==
    \E ig \in {Null, Some(5000)} : \E id \in {Null, Some("index")} :
    \E dg \in {Null, Some(9000)} : \E dd \in {Null, Some("detail")} :
    \E nd \in 0..1 :
        files = Inputs(<< [IndexRow(1, Some(TitleTheF))
                              EXCEPT !.total_gross = ig, !.distributor = id] >>,
                       [k \in 1..nd |->
                           [DetailRow(Ids[1], Some(DateInWindow), Some(700))
                               EXCEPT !.domestic_gross = dg, !.distributor = dd]],
                       OneRtEach(1), PlainTn)

\* one film: the release date of the detail page is missing, well formed,
\* in no known format or names no day of the calendar; the month and day of
\* the index likewise, and its year is missing, a common or a leap year
DateInputs ==
    \E dd \in {Null, Some(DateInWindow),
                Some([DateInWindow EXCEPT !.fmt = "other"]),
                Some(DetailDate(2022, 2, 30))} :
    \E rd \in {Null, Some([fmt |-> "%b %d", m |-> 9, d |-> 1]),
                Some([fmt |-> "%b %d", m |-> 2, d |-> 29]),
                Some([fmt |-> "other", m |-> 9, d |-> 1])} :
    \E yr \in {Null, Some(2023), Some(2024)} :
        files = Inputs(<< [IndexRow(1, Some(TitleTheF))
                              EXCEPT !.release_date_raw = rd, !.bom_year = yr] >>,
                       << DetailRow(Ids[1], dd, Some(700)) >>,
                       OneRtEach(1), PlainTn)

\* the rating of the detail page is present or missing, and the film has a
\* review row with a rating, one without, or none
MpaaInputs ==
    \E n \in 1..MaxRows :
    \E c \in [1..n -> {Null, Some("PG")} \X {"rated", "unrated", "none"}] :
        files = Inputs(PlainIndex(n),
                       [k \in 1..n |->
                           [DetailRow(Ids[k], Some(DateInWindow), Some(700))
                               EXCEPT !.mpaa_rating = c[k][1]]],
                       SelectSeq([k \in 1..n |->
                                     IF c[k][2] = "unrated" THEN UnmatchedRtRow(Ids[k])
                                     ELSE RtRowOf(Ids[k], Some(60), Some(59))],
                                 LAMBDA r : \E k \in 1..n :
                                    /\ r.bom_release_id = Some(Ids[k])
                                    /\ c[k][2] # "none"),
                       PlainTn)

\* one film: the budget of its entry in the budget table and the two
\* grosses of its detail page are missing, negative, zero or positive
LogInputs ==
    \E b \in {Null, Some(-5), Some(0), Some(1), Some(1000)} :
    \E og \in {Null, Some(-3), Some(0), Some(1), Some(3000)} :
    \E dg \in {Some(0), Some(9000)} :
    \E nt \in 0..1 :
        files = Inputs(PlainIndex(1),
                       << [DetailRow(Ids[1], Some(DateInWindow), Some(700))
                              EXCEPT !.opening_wknd_gross = og,
                                     !.domestic_gross = dg] >>,
                       OneRtEach(1),
                       [k \in 1..nt |->
                           [TnRow(TitleF, Some(2022), 1)
                               EXCEPT !.production_budget = b]])

\* the table without column c
DropColumn(rows, c) ==
    [k \in 1..Len(rows) |-> [f \in DOMAIN rows[k] \ {c} |-> rows[k][f]]]

\* one of the four files lacks one column
MissingColumnInputs ==
    \E n \in 1..MaxRows :
    \E t \in {"bom_index", "bom_details", "rt_scores", "tn_budgets"} :
    LET plain == Inputs(PlainIndex(n), OneDetailEach(n), OneRtEach(n), PlainTn)
    IN \E c \in DOMAIN plain[t][1] :
          files = [plain EXCEPT ![t] = DropColumn(@, c)]

(***************************************************************************)
(* merge_datasets: one action per stage                                    *)
(***************************************************************************)
\* utils.setup_logging: logging.FileHandler opens (creates, or appends to)
\* LOG_DIR/05_merge_datasets_<timestamp>.log, the timestamp to the second
setup_logging(logs, timestamp) == logs \cup {timestamp}

\* lines 310-314: setup_logging, then load_raw_data
LoadRawData ==
    /\ stage = "START"
    /\ log_files' = setup_logging(log_files, now)
    /\ raw' = Table(files)
    /\ stage' = "RAW_LOADED"
    /\ UNCHANGED <<files, scorer, bom, bom_rt, bom_df, match_results, scored,
                   full, filtered, final, merged_csv, diag_csv>>
    /\ UNCHANGED <<normVars, auxVars>>
    /\ UNCHANGED <<now, log_lines>>

\* lines 316-317: merge_bom
MergeBom ==
    /\ stage = "RAW_LOADED"
    /\ IF /\ IndexCols \subseteq Columns(Rows(raw).bom_index, IndexCols)
          /\ DetailCols \subseteq Columns(Rows(raw).bom_details, DetailCols)
       THEN /\ bom' = Table(merge_bom(Rows(raw).bom_index, Rows(raw).bom_details))
            /\ stage' = "BOM_MERGED"
       ELSE /\ stage' = "FAILED"
            /\ UNCHANGED bom
    /\ UNCHANGED <<files, scorer, raw, bom_rt, bom_df, match_results, scored,
                   full, filtered, final, merged_csv, diag_csv>>
    /\ UNCHANGED <<normVars, auxVars>>
    /\ UNCHANGED runVars

\* lines 319-320: merge_rt
MergeRt ==
    /\ stage = "BOM_MERGED"
    /\ IF MergeRtRaises(Rows(raw).rt_scores)
       THEN /\ stage' = "FAILED"
            /\ UNCHANGED bom_rt
       ELSE /\ bom_rt' = Table(merge_rt(Rows(bom), Rows(raw).rt_scores))
            /\ stage' = "REVIEW_MERGED"
    /\ UNCHANGED <<files, scorer, raw, bom, bom_df, match_results, scored,
                   full, filtered, final, merged_csv, diag_csv>>
    /\ UNCHANGED <<normVars, auxVars>>
    /\ UNCHANGED runVars

\* normalize_title on a cell of the title column: a missing title is the
\* float NaN, which is truthy and has no lower(), so line 135 raises
NormalizeRaises(cell) == cell = Null

\* lines 120-127, for one row
WithNormAndYear(r) ==
    r @@ [title_norm |-> normalize_title(Val(r.title)),
          release_year |-> YearOf(r.release_date_parsed)]

\* lines 120-137 of fuzzy_match_budgets: the columns added before the loop
FuzzyStart ==
    /\ stage = "REVIEW_MERGED"
    /\ IF \/ \E k \in 1..Len(Rows(bom_rt)) : NormalizeRaises(Rows(bom_rt)[k].title)
          \/ TnDfRaises(Rows(raw).tn_budgets)
       THEN /\ stage' = "FAILED"
            /\ UNCHANGED <<bom_df, match_results>>
       ELSE /\ stage' = "MATCHING"
            /\ bom_df' = Table([k \in 1..Len(Rows(bom_rt)) |->
                                   WithNormAndYear(Rows(bom_rt)[k])])
            /\ match_results' = <<>>
    /\ UNCHANGED <<files, scorer, raw, bom, bom_rt, scored,
                   full, filtered, final, merged_csv, diag_csv>>
    /\ UNCHANGED <<normVars, auxVars>>
    /\ UNCHANGED runVars

\* has the loop of line 139 visited every row
LoopDone == Len(match_results) = Len(Rows(bom_df))

\* lines 139-208: one iteration of the loop
FuzzyMatchRow ==
    /\ stage = "MATCHING"
    /\ ~LoopDone
    /\ LET i == Len(match_results) + 1
           row == Rows(bom_df)[i]
           tn == TnDf(Rows(raw).tn_budgets)
       IN /\ scored' = scored \cup {<<i, c>> : c \in ScoredFor(row, tn)}
          /\ IF MatchRaises(row, tn)
             THEN /\ stage' = "FAILED"
                  /\ UNCHANGED match_results
             ELSE /\ match_results' = Append(match_results, MatchRow(row, tn))
                  /\ UNCHANGED stage
    /\ UNCHANGED <<files, scorer, raw, bom, bom_rt, bom_df,
                   full, filtered, final, merged_csv, diag_csv>>
    /\ UNCHANGED <<normVars, auxVars>>
    /\ UNCHANGED runVars

\* lines 210-225: the match columns joined back, row by row
FuzzyFinish ==
    /\ stage = "MATCHING"
    /\ LoopDone
    /\ full' = Table([k \in 1..Len(Rows(bom_df)) |->
                         Rows(bom_df)[k] @@ match_results[k]])
    /\ stage' = "BUDGET_MATCHED"
    /\ UNCHANGED <<files, scorer, raw, bom, bom_rt, bom_df, match_results,
                   scored, filtered, final, merged_csv, diag_csv>>
    /\ UNCHANGED <<normVars, auxVars>>
    /\ UNCHANGED runVars

\* lines 325-326: apply_study_filters
ApplyStudyFilters ==
    /\ stage = "BUDGET_MATCHED"
    /\ filtered' = Table(apply_study_filters(Rows(full)))
    /\ log_lines' = log_lines \o study_filter_log(Rows(full))
    /\ stage' = "FILTERED"
    /\ UNCHANGED <<files, scorer, raw, bom, bom_rt, bom_df, match_results,
                   scored, full, final, merged_csv, diag_csv>>
    /\ UNCHANGED <<normVars, auxVars>>
    /\ UNCHANGED <<log_files, now>>

\* str(d) if d else None (lines 332-334)
DateString(date) ==
    IF NotNull(date)
    THEN Some([fmt |-> "%Y-%m-%d", y |-> Val(date)[1], m |-> Val(date)[2],
               d |-> Val(date)[3]])
    ELSE Null

\* the variables constructed on the unfiltered table
ConstructOnUnfiltered ==
    /\ stage = "FILTERED"
    /\ final' = Table([k \in 1..Len(Rows(full)) |->
                   construct_rdd_variables(Rows(full))[k]
                   @@ [release_date |->
                          DateString(Rows(full)[k].release_date_parsed)]])
    /\ stage' = "VARIABLES_CONSTRUCTED"
    /\ UNCHANGED <<files, scorer, raw, bom, bom_rt, bom_df, match_results,
                   scored, full, filtered, merged_csv, diag_csv>>
    /\ UNCHANGED <<normVars, auxVars>>
    /\ UNCHANGED runVars

\* lines 328-334: construct_rdd_variables, then the release_date column
ConstructRddVariables ==
    /\ stage = "FILTERED"
    /\ final' = Table([k \in 1..Len(Rows(filtered)) |->
                   construct_rdd_variables(Rows(filtered))[k]
                   @@ [release_date |->
                          DateString(Rows(filtered)[k].release_date_parsed)]])
    /\ stage' = "VARIABLES_CONSTRUCTED"
    /\ UNCHANGED <<files, scorer, raw, bom, bom_rt, bom_df, match_results,
                   scored, full, filtered, merged_csv, diag_csv>>
    /\ UNCHANGED <<normVars, auxVars>>
    /\ UNCHANGED runVars

\* to_csv appending to the file already there instead of replacing it
FinalizeAppending ==
    /\ stage = "VARIABLES_CONSTRUCTED"
    /\ merged_csv' =
          Table((IF Produced(merged_csv) THEN Rows(merged_csv) ELSE <<>>)
                \o SelectCols(Rows(final), OutputCols))
    /\ diag_csv' =
          Table((IF Produced(diag_csv) THEN Rows(diag_csv) ELSE <<>>)
                \o SelectCols(Rows(final), DiagCols))
    /\ stage' = "FINALIZED"
    /\ UNCHANGED <<files, scorer, raw, bom, bom_rt, bom_df, match_results,
                   scored, full, filtered, final>>
    /\ UNCHANGED <<normVars, auxVars>>
    /\ UNCHANGED runVars

\* only the rows that need review written to the diagnostics file
FinalizeDiagNeedsReview ==
    /\ stage = "VARIABLES_CONSTRUCTED"
    /\ merged_csv' = Table(SelectCols(Rows(final), OutputCols))
    /\ diag_csv' =
          Table(SelectCols(SelectSeq(Rows(final),
                                     LAMBDA r : r.tn_match_status = "review"),
                           DiagCols))
    /\ log_lines' = Append(log_lines, [line |-> "Saved", rows |-> Len(Rows(final)),
                                       removed |-> 0])
    /\ stage' = "FINALIZED"
    /\ UNCHANGED <<files, scorer, raw, bom, bom_rt, bom_df, match_results,
                   scored, full, filtered, final>>
    /\ UNCHANGED <<normVars, auxVars>>
    /\ UNCHANGED <<log_files, now>>

\* lines 336-358: the two output files are written
Finalize ==
    /\ stage = "VARIABLES_CONSTRUCTED"
    /\ merged_csv' = Table(SelectCols(Rows(final), OutputCols))
    /\ diag_csv' = Table(SelectCols(Rows(final), DiagCols))
    /\ log_lines' = Append(log_lines, [line |-> "Saved", rows |-> Len(Rows(final)),
                                       removed |-> 0])
    /\ stage' = "FINALIZED"
    /\ UNCHANGED <<files, scorer, raw, bom, bom_rt, bom_df, match_results,
                   scored, full, filtered, final>>
    /\ UNCHANGED <<normVars, auxVars>>
    /\ UNCHANGED <<log_files, now>>

Next ==
    \/ LoadRawData
    \/ MergeBom
    \/ MergeRt
    \/ FuzzyStart
    \/ FuzzyMatchRow
    \/ FuzzyFinish
    \/ ApplyStudyFilters
    \/ ConstructRddVariables
    \/ Finalize

\* the state a run starts in, but for its input files: nothing loaded,
\* nothing written
Started ==
    /\ stage = "START"
    /\ raw = NotYet
    /\ bom = NotYet
    /\ bom_rt = NotYet
    /\ bom_df = NotYet
    /\ match_results = <<>>
    /\ scored = {}
    /\ full = NotYet
    /\ filtered = NotYet
    /\ final = NotYet
    /\ merged_csv = NotYet
    /\ diag_csv = NotYet
    /\ title = <<>>
    /\ norm1 = <<>>
    /\ norm2 = <<>>
    /\ npc = "idle"
    /\ log_files = {}
    /\ now = 0
    /\ log_lines = <<>>
    /\ MoneyIdle /\ RequestIdle /\ CascadeIdle /\ ScrapeIdle

Init ==
    /\ \/ DetailJoinInputs /\ scorer = PlainScorer
       \/ ReviewJoinInputs /\ scorer = PlainScorer
       \/ BlockingInputs /\ scorer = PlainScorer
       \/ ScoringInputs /\ scorer \in Scorers
       \/ FilmTitleInputs /\ scorer = PlainScorer
       \/ VariableInputs /\ scorer = PlainScorer
       \/ WindowInputs /\ scorer = PlainScorer
       \/ TheaterInputs /\ scorer = PlainScorer
       \/ MissingColumnInputs /\ scorer = PlainScorer
       \/ KeyedInputs /\ scorer = PlainScorer
       \/ BomFieldInputs /\ scorer = PlainScorer
       \/ DateInputs /\ scorer = PlainScorer
       \/ MpaaInputs /\ scorer = PlainScorer
       \/ LogInputs /\ scorer = PlainScorer
       \/ CutoffInputs /\ scorer = PlainScorer
       \/ BothFilterInputs /\ scorer = PlainScorer
    /\ Started

Spec == Init /\ [][Next]_vars

\* lines 375-376: the script is run again, in a new process, once the run
\* before it has ended; the files on disk stay, the clock may have advanced
Rerun ==
    /\ stage \in {"FINALIZED", "FAILED"}
    /\ now' \in now..MaxClock
    /\ stage' = "START"
    /\ raw' = NotYet
    /\ bom' = NotYet
    /\ bom_rt' = NotYet
    /\ bom_df' = NotYet
    /\ match_results' = <<>>
    /\ scored' = {}
    /\ full' = NotYet
    /\ filtered' = NotYet
    /\ final' = NotYet
    /\ log_lines' = <<>>
    /\ UNCHANGED <<files, scorer, merged_csv, diag_csv, log_files>>
    /\ UNCHANGED <<normVars, auxVars>>

NextRerun ==
    \/ LoadRawData
    \/ MergeBom
    \/ MergeRt
    \/ FuzzyStart
    \/ FuzzyMatchRow
    \/ FuzzyFinish
    \/ ApplyStudyFilters
    \/ ConstructRddVariables
    \/ Finalize
    \/ Rerun

\* the inputs of the runs that are repeated
InitRerun ==
    /\ FilmTitleInputs \/ VariableInputs \/ WindowInputs
    /\ scorer = PlainScorer
    /\ Started

SpecRerun == InitRerun /\ [][NextRerun]_vars


(***************************************************************************)
(* Claims about normalize_title (checked under SpecNorm)                   *)
(***************************************************************************)
\* C1: title normalization is idempotent: normalizing an already normalized
\* title returns it unchanged, for every title string.
C1_NormalizeIdempotent == npc = "twice" => norm2 = norm1

TheF == <<"T", "h", "e", " ", "f">>
AAF == <<"A", " ", "A", " ", "f">>

ArticlePrefix(S) ==
    (IF 1 \in S THEN Articles[1] ELSE <<>>)
    \o (IF 2 \in S THEN Articles[2] ELSE <<>>)
    \o (IF 3 \in S THEN Articles[3] ELSE <<>>)

ExpectedIndicator(score) ==
    IF score = Null THEN Null
    ELSE IF Val(score) >= RD_THRESHOLD THEN Some(1) ELSE Some(0)

\* C3: in the table construct_rdd_variables returns, for every row and both
\* score types, the treatment indicator is null when the score is null, and
\* otherwise 1 if the score is at least the cutoff and 0 if it is below.
C3_IndicatorNullWhenScoreNull ==
    Produced(final) =>
        \A k \in 1..Len(Rows(final)) :
            LET r == Rows(final)[k]
            IN /\ r.is_fresh_critic = ExpectedIndicator(r.tomatometer)
               /\ r.is_fresh_audience = ExpectedIndicator(r.audience_score)

\* C4: both exact-key merges return exactly as many rows as their left
\* table has, whatever the right table holds.
C4_LeftJoinsKeepRowCount ==
    /\ Produced(bom) => Len(Rows(bom)) = Len(files.bom_index)
    /\ Produced(bom_rt) => Len(Rows(bom_rt)) = Len(Rows(bom))

\* was the scorer invoked for row i of the loop
RowScored(i) == \E p \in scored : p[1] = i

\* C5: for every row for which a best candidate was scored, the status is
\* decided by the score and the two thresholds alone, and the three statuses
\* partition the score range: matched iff score >= accept, review iff
\* review <= score < accept, unmatched iff score < review.
C5_ThresholdsPartitionScores ==
    \A i \in 1..Len(match_results) :
        RowScored(i) =>
            LET m == match_results[i]
            IN /\ m.tn_match_score \in 0..100
               /\ m.tn_match_status = "matched"
                    <=> m.tn_match_score >= FUZZY_MATCH_ACCEPT_THRESHOLD
               /\ m.tn_match_status = "review"
                    <=> /\ FUZZY_MATCH_REVIEW_THRESHOLD <= m.tn_match_score
                        /\ m.tn_match_score < FUZZY_MATCH_ACCEPT_THRESHOLD
               /\ m.tn_match_status = "unmatched"
                    <=> m.tn_match_score < FUZZY_MATCH_REVIEW_THRESHOLD

\* a row whose best candidate scored exactly the accept threshold
C5_ScoreAtAcceptThreshold ==
    \E i \in 1..Len(match_results) :
        /\ RowScored(i)
        /\ match_results[i].tn_match_score = FUZZY_MATCH_ACCEPT_THRESHOLD
        /\ match_results[i].tn_match_status = "matched"

\* the budget table the loop works on, a column it lacks read as null
Budgets ==
    LET tn == TnDf(Rows(raw).tn_budgets)
    IN [k \in 1..Len(tn) |-> [c \in TnCols |-> Get(tn[k], c)]]

\* is entry k of the budget table in the year block of row i: any entry when
\* the row's release year is unknown, else one at most a year away
InPool(i, k) ==
    LET y == Rows(bom_df)[i].release_year
        ty == Budgets[k].release_year
    IN y = Null \/ (ty # Null /\ Val(ty) \in (Val(y) - 1)..(Val(y) + 1))

\* C6: a row whose candidate pool is empty (an empty budget table, or no
\* entry left by year blocking) gets status unmatched, score 0, a null
\* matched title and a null budget, and the scorer is not invoked for it.
C6_EmptyPoolIsUnmatched ==
    \A i \in 1..Len(match_results) :
        (\A k \in 1..Len(Budgets) : ~InPool(i, k)) =>
            /\ match_results[i].tn_match_status = "unmatched"
            /\ match_results[i].tn_match_score = 0
            /\ match_results[i].tn_title_matched = Null
            /\ match_results[i].production_budget = Null
            /\ ~RowScored(i)

\* a titled row with a known year whose pool year blocking has emptied
C6_PoolEmptiedByBlocking ==
    \E i \in 1..Len(match_results) :
        /\ Rows(bom_df)[i].title_norm # <<>>
        /\ Len(Budgets) > 0
        /\ \A k \in 1..Len(Budgets) :
              ~InPool(i, k) /\ Budgets[k].title_normalized # Null
        /\ match_results[i].tn_match_status = "unmatched"

\* is the title of row k of the review-merged table empty or null
EmptyOrNullTitle(k) ==
    \/ Rows(bom_rt)[k].title = Null
    \/ normalize_title(Val(Rows(bom_rt)[k].title)) = <<>>

\* C7: a row whose title is empty or null never causes an error and gets
\* status unmatched with score 0, whatever the budget table holds.
C7_EmptyTitleNeverFails ==
    /\ stage # "FAILED"
    /\ \A i \in 1..Len(match_results) :
          EmptyOrNullTitle(i) =>
              /\ match_results[i].tn_match_status = "unmatched"
              /\ match_results[i].tn_match_score = 0

\* the entry of the budget table a match result was taken from (the budget
\* tells the entries apart), 0 when the row got no candidate
ChosenEntry(m) ==
    IF m.tn_title_matched = Null THEN 0
    ELSE CHOOSE k \in 1..Len(Budgets) :
            /\ Budgets[k].production_budget = m.production_budget
            /\ Budgets[k].title = m.tn_title_matched

\* the score of entry k of the budget table for row i
ScoreOf(i, k) ==
    scorer[<<Rows(bom_df)[i].title_norm, Val(Budgets[k].title_normalized)>>]

\* C8: the candidate chosen for a row of known release year Y is an entry
\* of year Y-1, Y or Y+1, never one of another or of unknown year; for a row
\* of unknown year every entry of the budget table is a candidate (none
\* scores higher than the one chosen).
C8_YearBlocking ==
    \A i \in 1..Len(match_results) :
        LET r == Rows(bom_df)[i]
            c == ChosenEntry(match_results[i])
        IN /\ (r.release_year # Null /\ c # 0) =>
                 /\ Budgets[c].release_year # Null
                 /\ Val(Budgets[c].release_year) >= Val(r.release_year) - 1
                 /\ Val(Budgets[c].release_year) <= Val(r.release_year) + 1
           /\ (r.release_year = Null /\ r.title_norm # <<>>) =>
                 \A k \in 1..Len(Budgets) :
                    Budgets[k].title_normalized # Null =>
                       /\ c # 0
                       /\ ScoreOf(i, c) >= ScoreOf(i, k)

\* a row of known year that took the second entry of the budget table
\* because the first, with the same title, is two years away
C8_OutOfBlockEntryPassedOver ==
    /\ Len(match_results) >= 1
    /\ Len(Budgets) >= 2
    /\ Rows(bom_df)[1].release_year # Null
    /\ Budgets[1].release_year = Some(Val(Rows(bom_df)[1].release_year) - 2)
    /\ Budgets[1].title_normalized = Budgets[2].title_normalized
    /\ ChosenEntry(match_results[1]) = 2

\* the entries of the budget table extractOne scores for row i
Scorable(i) ==
    { k \in 1..Len(Budgets) : InPool(i, k) /\ Budgets[k].title_normalized # Null }

\* C9: the candidate chosen for a row is the highest-scoring one of its year
\* block, the first of them in the order of the budget table when several
\* score the same, and the matched title, score and budget of the row are
\* those of that one entry.
C9_BestCandidateFirstOnTies ==
    \A i \in 1..Len(match_results) :
        Rows(bom_df)[i].title_norm # <<>> =>
            LET m == match_results[i]
                c == ChosenEntry(m)
            IN IF Scorable(i) = {} THEN c = 0
               ELSE /\ c \in Scorable(i)
                    /\ \A k \in Scorable(i) :
                          \/ ScoreOf(i, k) < ScoreOf(i, c)
                          \/ ScoreOf(i, k) = ScoreOf(i, c) /\ k >= c
                    /\ m.tn_title_matched = Budgets[c].title
                    /\ m.tn_match_score = ScoreOf(i, c)
                    /\ m.production_budget = Budgets[c].production_budget

\* two entries of different titles tie for the best score and the first wins
C9_TieWonByFirst ==
    \E i \in 1..Len(match_results) :
        /\ Scorable(i) = {1, 2}
        /\ Budgets[1].title # Budgets[2].title
        /\ Budgets[1].title_normalized # Budgets[2].title_normalized
        /\ ScoreOf(i, 1) = ScoreOf(i, 2)
        /\ ScoreOf(i, 1) < 100
        /\ match_results[i].tn_title_matched = Budgets[1].title

StageOrder ==
    <<"START", "RAW_LOADED", "BOM_MERGED", "REVIEW_MERGED", "MATCHING",
      "BUDGET_MATCHED", "FILTERED", "VARIABLES_CONSTRUCTED", "FINALIZED">>

StageNo(s) == CHOOSE k \in 1..Len(StageOrder) : StageOrder[k] = s

IdsOf(rows) == [k \in 1..Len(rows) |-> rows[k].bom_release_id]

\* the tables that exist at each stage, and what each was computed from
StageTablesComplete ==
    stage # "FAILED" =>
        /\ Produced(raw) <=> StageNo(stage) >= StageNo("RAW_LOADED")
        /\ Produced(bom) <=> StageNo(stage) >= StageNo("BOM_MERGED")
        /\ Produced(bom_rt) <=> StageNo(stage) >= StageNo("REVIEW_MERGED")
        /\ Produced(bom_df) <=> StageNo(stage) >= StageNo("MATCHING")
        /\ Produced(full) <=> StageNo(stage) >= StageNo("BUDGET_MATCHED")
        /\ Produced(filtered) <=> StageNo(stage) >= StageNo("FILTERED")
        /\ Produced(final) <=> StageNo(stage) >= StageNo("VARIABLES_CONSTRUCTED")
        /\ Produced(merged_csv) <=> stage = "FINALIZED"
        /\ Produced(full) =>
              /\ Len(match_results) = Len(Rows(bom_rt))
              /\ IdsOf(Rows(full)) = IdsOf(Rows(bom_rt))
        /\ Produced(final) => IdsOf(Rows(final)) = IdsOf(Rows(filtered))
        /\ Produced(merged_csv) => IdsOf(Rows(merged_csv)) = IdsOf(Rows(filtered))

\* C10: the stages run in the strict order RAW_LOADED, BOM_MERGED,
\* REVIEW_MERGED, BUDGET_MATCHED, FILTERED, VARIABLES_CONSTRUCTED, FINALIZED:
\* every change of stage goes to the next one (or the run fails), a stage is
\* entered only when the table of the stage before is complete, and the
\* derived variables are computed on the rows of the filtered table only.
C10_StagesInStrictOrder ==
    /\ []StageTablesComplete
    /\ [][stage' # stage =>
            \/ stage' = "FAILED"
            \/ StageNo(stage') = StageNo(stage) + 1]_vars

\* a finished run in which the filters dropped a row and kept one
C10_FinishedWithRowFiltered ==
    /\ stage = "FINALIZED"
    /\ Len(Rows(filtered)) < Len(Rows(full))
    /\ Len(Rows(merged_csv)) > 0

(***************************************************************************)
(* Claims about the study filters and the derived variables                *)
(***************************************************************************)
\* a <= b on calendar dates <<year, month, day>>
DateLE(a, b) ==
    \/ a[1] < b[1]
    \/ a[1] = b[1] /\ a[2] < b[2]
    \/ a[1] = b[1] /\ a[2] = b[2] /\ a[3] <= b[3]

\* the resolved release date of the row is known and lies in the study
\* window, both ends included
DateKept(r) ==
    /\ r.release_date_parsed # Null
    /\ DateLE(START_DATE, Val(r.release_date_parsed))
    /\ DateLE(Val(r.release_date_parsed), END_DATE)

\* C11: the date-window filter keeps a row iff its resolved release date is
\* non-null and start <= date <= end: the filtered table is the rows of the
\* matched table with such a date (that also pass the theater filter), in
\* order; every row in it is dated inside the window, and a row dated on the
\* start date or on the end date is not dropped for its date.
C11_DateWindowInclusive ==
    Produced(filtered) =>
        /\ Rows(filtered) = SelectSeq(SelectSeq(Rows(full), DateKept), WideRelease)
        /\ \A k \in 1..Len(Rows(filtered)) : DateKept(Rows(filtered)[k])
        /\ \A k \in 1..Len(Rows(full)) :
              LET r == Rows(full)[k]
              IN (/\ r.release_date_parsed \in {Some(START_DATE), Some(END_DATE)}
                  /\ WideRelease(r))
                 => \E j \in 1..Len(Rows(filtered)) : Rows(filtered)[j] = r

\* a film released on the end date is kept and one with no date is dropped
C11_EndDateKeptNullDropped ==
    /\ Produced(filtered)
    /\ Len(Rows(full)) = 2
    /\ Rows(full)[1].release_date_parsed = Null
    /\ Rows(full)[2].release_date_parsed = Some(END_DATE)
    /\ IdsOf(Rows(filtered)) = << Rows(full)[2].bom_release_id >>

\* the opening-weekend theater count of the row is known and at least the
\* configured minimum
TheatersKept(r) ==
    \E n \in MIN_OPENING_THEATERS..1000 : r.opening_wknd_theaters = Some(n)

\* C12: the minimum-release-breadth filter keeps a row iff its theater count
\* is non-null and at least the minimum; a row with a null count is dropped
\* (A=700, B=500, C=null with minimum 600 retain only A).
C12_MinTheatersFilter ==
    Produced(filtered) =>
        /\ Rows(filtered) = SelectSeq(SelectSeq(Rows(full), InDateWindow), TheatersKept)
        /\ \A k \in 1..Len(Rows(filtered)) :
              /\ Rows(filtered)[k].opening_wknd_theaters # Null
              /\ Val(Rows(filtered)[k].opening_wknd_theaters) >= 600

\* the scenario of the claim: A=700, B=500, C=null retain only A
C12_OnlyAKept ==
    /\ Produced(filtered)
    /\ Len(Rows(full)) = 3
    /\ Rows(full)[1].opening_wknd_theaters = Some(700)
    /\ Rows(full)[2].opening_wknd_theaters = Some(500)
    /\ Rows(full)[3].opening_wknd_theaters = Null
    /\ IdsOf(Rows(full)) = <<Some("A"), Some("B"), Some("C")>>
    /\ IdsOf(Rows(filtered)) = <<Some("A")>>

\* C13: in the derived table, for both score types and every non-null score,
\* centered = score - cutoff and indicator = 1 iff centered >= 0; a score
\* equal to the cutoff gives centered 0 and indicator 1.
C13_CenteredAgreesWithIndicator ==
    Produced(final) =>
        \A k \in 1..Len(Rows(final)) :
            LET r == Rows(final)[k]
                Agree(score, centered, ind) ==
                    score # Null =>
                        /\ centered # Null
                        /\ Val(centered) + 60 = Val(score)
                        /\ ind \in {Some(0), Some(1)}
                        /\ ind = Some(1) <=> Val(centered) >= 0
                        /\ Val(score) = 60 => centered = Some(0) /\ ind = Some(1)
            IN /\ Agree(r.tomatometer, r.tomatometer_centered, r.is_fresh_critic)
               /\ Agree(r.audience_score, r.audience_score_centered,
                        r.is_fresh_audience)

\* a film whose critic score is exactly the cutoff and whose audience score
\* is one below it
C13_ScoreAtCutoff ==
    /\ Produced(final)
    /\ \E k \in 1..Len(Rows(final)) :
          LET r == Rows(final)[k]
          IN /\ r.tomatometer = Some(RD_THRESHOLD)
             /\ r.tomatometer_centered = Some(0)
             /\ r.is_fresh_critic = Some(1)
             /\ r.audience_score = Some(RD_THRESHOLD - 1)
             /\ r.is_fresh_audience = Some(0)

\* does every input table have every column the pipeline names
AllColumnsPresent ==
    /\ IndexCols \subseteq Columns(files.bom_index, IndexCols)
    /\ DetailCols \subseteq Columns(files.bom_details, DetailCols)
    /\ RtCols \subseteq Columns(files.rt_scores, RtCols)
    /\ TnCols \subseteq Columns(files.tn_budgets, TnCols)

\* C15: when a required column is missing from one of the four input tables
\* the run stops before it writes any output: no run writes
\* merged_dataset.csv (or the diagnostics) from a table that lacks a column
\* such as match_method, rt_rating or the release identifier.
C15_MissingColumnStopsRun ==
    (Produced(merged_csv) \/ Produced(diag_csv)) => AllColumnsPresent

(***************************************************************************)
(* Claims about the two exact joins                                        *)
(***************************************************************************)
\* the row of bom_index.csv with the identifier (the file has one at most)
IndexRowFor(id) ==
    CHOOSE l \in {files.bom_index[k] : k \in 1..Len(files.bom_index)} :
        l.bom_release_id = id

\* the rows of a right table that a row with the identifier may have been
\* joined with: those with the same identifier, or the all-null row when
\* there is none
PartnersFor(id, right, nullRow) ==
    IF \E k \in 1..Len(right) : right[k].bom_release_id = id
    THEN {right[k] : k \in {j \in 1..Len(right) : right[j].bom_release_id = id}}
    ELSE {nullRow}

\* the identifier of the row is one of the listing index, and its detail
\* fields are those of one detail row with that identifier
KeyedToDetail(r) ==
    /\ r.bom_release_id # Null
    /\ \E k \in 1..Len(files.bom_index) :
          files.bom_index[k].bom_release_id = r.bom_release_id
    /\ \E d \in PartnersFor(r.bom_release_id, files.bom_details, NullDetail) :
          /\ r.opening_wknd_gross = d.opening_wknd_gross
          /\ r.opening_wknd_theaters = d.opening_wknd_theaters

\* its review fields are those of one review row with that identifier
KeyedToReview(r) ==
    \E v \in PartnersFor(r.bom_release_id, files.rt_scores, NullRt) :
        /\ r.tomatometer = v.tomatometer
        /\ r.audience_score = v.audience_score

\* C16: no stage recomputes or changes the release identifier, and it is the
\* sole key of both exact joins: every row of every table from the merged
\* box-office table to the finalized file carries an identifier that is in
\* bom_index.csv, and the fields an exact join attached to it are those of
\* a detail row, and of a review row, with that same identifier.
C16_ReleaseIdIsTheJoinKey ==
    /\ Produced(bom) =>
          \A k \in 1..Len(Rows(bom)) : KeyedToDetail(Rows(bom)[k])
    /\ \A t \in {bom_rt, bom_df, full, filtered, final, merged_csv} :
          Produced(t) =>
             \A k \in 1..Len(Rows(t)) :
                KeyedToDetail(Rows(t)[k]) /\ KeyedToReview(Rows(t)[k])

\* a finalized table whose two films have their detail rows and their
\* review rows in the opposite order in the input files
C16_JoinedAcrossRowOrder ==
    /\ Produced(merged_csv)
    /\ IdsOf(files.bom_index) = <<Some("A"), Some("B")>>
    /\ IdsOf(files.bom_details) = <<Some("B"), Some("A")>>
    /\ IdsOf(files.rt_scores) = <<Some("B"), Some("A")>>
    /\ files.bom_details[1].opening_wknd_gross # files.bom_details[2].opening_wknd_gross
    /\ files.rt_scores[1].tomatometer # files.rt_scores[2].tomatometer
    /\ IdsOf(Rows(merged_csv)) = <<Some("A"), Some("B")>>

\* C17: in the merged box-office table, for domestic gross and for
\* distributor independently, the value is the detail-page value when that
\* is non-null and the listing-index value (total gross, index distributor)
\* when it is null; it is null only when both are null.
C17_DetailValuePreferred ==
    Produced(bom) =>
        \A k \in 1..Len(Rows(bom)) :
            LET r == Rows(bom)[k]
                l == IndexRowFor(r.bom_release_id)
            IN \E d \in PartnersFor(r.bom_release_id, files.bom_details, NullDetail) :
                  /\ d.domestic_gross # Null => r.domestic_gross = d.domestic_gross
                  /\ d.domestic_gross = Null => r.domestic_gross = l.total_gross
                  /\ d.distributor # Null => r.distributor = d.distributor
                  /\ d.distributor = Null => r.distributor = l.distributor
                  /\ r.domestic_gross = Null
                        <=> (d.domestic_gross = Null /\ l.total_gross = Null)
                  /\ r.distributor = Null
                        <=> (d.distributor = Null /\ l.distributor = Null)

\* a film whose gross fell back to the index while its distributor is the
\* detail page's, both sources having a distributor
C17_GrossFromIndexDistributorFromDetail ==
    /\ Produced(bom)
    /\ Len(files.bom_details) = 1
    /\ files.bom_details[1].domestic_gross = Null
    /\ files.bom_details[1].distributor = Some("detail")
    /\ files.bom_index[1].distributor = Some("index")
    /\ Rows(bom)[1].domestic_gross = Some(5000)
    /\ Rows(bom)[1].distributor = Some("detail")

\* the date a text of a known format spells, null for any other text
DateSpelled(text) ==
    IF /\ text.fmt \in {"%b %d, %Y", "%B %d, %Y", "%Y-%m-%d", "%m/%d/%Y"}
       /\ text.m \in 1..12
       /\ text.d \in 1..DaysInMonth(text.y, text.m)
    THEN Some(<<text.y, text.m, text.d>>)
    ELSE Null

\* C18: the release date is resolved in a fixed order, the first successful
\* parse winning: the detail page's release date when it parses, whatever
\* the index holds; else the index's month/day text joined with the index
\* year when that parses; else null.  A detail date that is present but
\* does not parse leaves the index fallback open.
C18_FirstSuccessfulParseWins ==
    Produced(bom) =>
        \A k \in 1..Len(Rows(bom)) :
            LET r == Rows(bom)[k]
                l == IndexRowFor(r.bom_release_id)
                fromIndex ==
                    IF l.release_date_raw # Null /\ l.bom_year # Null
                    THEN DateSpelled(
                            [fmt |-> IF Val(l.release_date_raw).fmt = "%b %d"
                                     THEN "%b %d, %Y" ELSE "other",
                             y |-> Val(l.bom_year),
                             m |-> Val(l.release_date_raw).m,
                             d |-> Val(l.release_date_raw).d])
                    ELSE Null
            IN \E d \in PartnersFor(r.bom_release_id, files.bom_details, NullDetail) :
                  LET fromDetail ==
                        IF d.release_date = Null THEN Null
                        ELSE DateSpelled(Val(d.release_date))
                  IN /\ fromDetail # Null => r.release_date_parsed = fromDetail
                     /\ fromDetail = Null => r.release_date_parsed = fromIndex

\* a detail date in no known format, and the date of the index used
C18_FallbackAfterUnparseableDetail ==
    /\ Produced(bom)
    /\ Len(files.bom_details) = 1
    /\ files.bom_details[1].release_date # Null
    /\ Val(files.bom_details[1].release_date).fmt = "other"
    /\ files.bom_index[1].bom_year = Some(2024)
    /\ Rows(bom)[1].release_date_parsed = Some(<<2024, 2, 29>>)

\* C19: merge_rt fills the MPAA rating from the review source only when
\* the box-office rating is null: a non-null box-office rating is kept, a
\* null one becomes the rating of the film's review row (null without
\* one), and every other column of the box-office table is left unchanged.
C19_RatingBackfilledOnlyWhenNull ==
    Produced(bom_rt) =>
        \A k \in 1..Len(Rows(bom_rt)) :
            LET r == Rows(bom_rt)[k]
            IN \E j \in 1..Len(Rows(bom)) :
                  LET b == Rows(bom)[j]
                  IN /\ \A c \in DOMAIN b \ {"mpaa_rating"} : r[c] = b[c]
                     /\ b.mpaa_rating # Null => r.mpaa_rating = b.mpaa_rating
                     /\ b.mpaa_rating = Null =>
                           \E v \in PartnersFor(b.bom_release_id, files.rt_scores,
                                                 NullRt) :
                              r.mpaa_rating = Get(v, "rt_rating")

\* one film keeps its box-office rating although its review row has
\* another, and one without a box-office rating takes the review's
C19_KeptAndBackfilled ==
    /\ Produced(bom_rt)
    /\ Len(Rows(bom)) = 2
    /\ Len(Rows(bom_rt)) = 2
    /\ Rows(bom)[1].mpaa_rating = Some("PG")
    /\ Rows(bom_rt)[1].rt_rating = Some("R")
    /\ Rows(bom_rt)[1].mpaa_rating = Some("PG")
    /\ Rows(bom)[2].mpaa_rating = Null
    /\ Rows(bom_rt)[2].mpaa_rating = Some("R")

\* C20: log_budget is null exactly when production_budget is null or <= 0
\* (a zero or negative budget is never floored to log(1)), and is the log
\* of the budget otherwise; the logs of opening gross, total gross and
\* theaters are null for a null value and otherwise the log of the value
\* floored at 1.
C20_LogBudgetNullOtherLogsFloored ==
    Produced(final) =>
        \A k \in 1..Len(Rows(final)) :
            LET r == Rows(final)[k]
                Floored(x, lg) ==
                    /\ x = Null => lg = Null
                    /\ (x # Null /\ Val(x) < 1) => lg = Some([ln |-> 1])
                    /\ (x # Null /\ Val(x) >= 1) => lg = Some([ln |-> Val(x)])
            IN /\ r.log_budget = Null
                    <=> (r.production_budget = Null \/ Val(r.production_budget) <= 0)
               /\ r.log_budget # Null =>
                     r.log_budget = Some([ln |-> Val(r.production_budget)])
               /\ Floored(r.opening_wknd_gross, r.log_opening_gross)
               /\ Floored(r.domestic_gross, r.log_total_gross)
               /\ Floored(r.opening_wknd_theaters, r.log_theaters)

\* a film with a budget of zero and an opening gross of zero: no log
\* budget, and a log opening gross of log(1)
C20_ZeroBudgetZeroGross ==
    /\ Produced(final)
    /\ \E k \in 1..Len(Rows(final)) :
          LET r == Rows(final)[k]
          IN /\ r.production_budget = Some(0)
             /\ r.log_budget = Null
             /\ r.opening_wknd_gross = Some(0)
             /\ r.log_opening_gross = Some([ln |-> 1])
             /\ r.tn_match_status = "matched"

(***************************************************************************)
(* Claims about repeated runs (checked under SpecRerun)                    *)
(***************************************************************************)
\* a step that writes an output file already on disk writes the same content
SameOutputs ==
    /\ Produced(merged_csv) => merged_csv' = merged_csv
    /\ Produced(diag_csv) => diag_csv' = diag_csv

\* C14 as stated: a run on the same input tables writes the same finalized
\* and diagnostics tables as the run before it, no step changes the input
\* tables, and no file other than the two outputs is created or changed.
C14_NoSideEffectButOutputs ==
    [][/\ SameOutputs
       /\ files' = files
       /\ log_files' = log_files]_vars

\* C14 as amended: the same, except that each run also opens one log file
\* named by its start time (a new file, or the file of a run started in the
\* same second), when it starts and before it reads its inputs.
C14_SameOutputsAndOneLogFile ==
    [][/\ SameOutputs
       /\ files' = files
       /\ log_files' # log_files =>
             /\ stage = "START"
             /\ log_files' = log_files \cup {now}
       /\ (stage = "START" /\ stage' # stage) => now \in log_files']_vars

\* a second run that has overwritten both outputs and left a second log file
C14_SecondRunFinished ==
    /\ stage = "FINALIZED"
    /\ Cardinality(log_files) = 2
    /\ Len(Rows(merged_csv)) > 0
    /\ Len(Rows(diag_csv)) > 0

(***************************************************************************)
(* 02_scrape_bom_details, 04_scrape_rotten_tomatoes and                    *)
(* 04b_rescrape_rt_missing: the runs of the scrapers                       *)
(***************************************************************************)
\* films of the list a scraper reads
MaxFilms == 3
\* the checkpoint interval (config.BOM_DETAILS_CHECKPOINT_INTERVAL and
\* config.RT_CHECKPOINT_INTERVAL, 50 and 25 rows, scaled to the film list)
MaxInterval == 2

\* utils.load_checkpoint (lines 217-227): the identifiers of the file
load_checkpoint(file) ==
    {file[k].bom_release_id[1] : k \in {j \in 1..Len(file) : file[j].bom_release_id # Null}}

\* utils.save_checkpoint (lines 239-250): the file rewritten with the new
\* rows after the ones it had
save_checkpoint(new_rows, file) == IF new_rows = <<>> THEN file ELSE file \o new_rows

\* the title left out of the record of a page that could not be fetched
DetailsOfNoTitle(film, resp) ==
    IF resp = Null \/ resp[1].status # 200
    THEN FailedDetailRow(film.id) @@ [title |-> Null]
    ELSE DetailRow(film.id, Some(DateInWindow), Some(700))
         @@ [title |-> Some(film.title)]

\* 02_scrape_bom_details lines 214-233: the record of one film, from what
\* make_request returned for its page
DetailsOf(film, resp) ==
    IF resp = Null \/ resp[1].status # 200
    THEN FailedDetailRow(film.id) @@ [title |-> Some(film.title)]
    ELSE DetailRow(film.id, Some(DateInWindow), Some(700))
         @@ [title |-> Some(film.title)]

\* the records one film can get in a run, with whether a page was fetched
\* for it: by 02 lines 214-233, or by the cascade of 04 lines 322-379
RecordsOf(script, film) ==
    IF script = "bom_details"
    THEN { [ok |-> resp # Null /\ resp[1].status = 200,
            record |-> DetailsOf(film, resp)] :
             resp \in {PageAnswer(a, <<>>) : a \in {"none", "404", "scores"}} }
    ELSE { [ok |-> a # "none",
            record |->
               Cascade([id |-> film.id, title |-> film.title,
                        slugs |-> << <<"u", "p">> >>,
                        direct |-> <<PageAnswer(a, MovieUrl(<<"u", "p">>))>>,
                        search |-> Null, found |-> Null]).record] :
             a \in {"none", "skeleton", "scores"} }

\* a run that ignores the rows already in the output file
ScrapeStartFresh ==
    /\ sc_script # "none"
    /\ sc_pc # "running"
    /\ sc_pc' = "running"
    /\ sc_processed' = {}
    /\ sc_start_ids' = load_checkpoint(sc_out)
    /\ sc_i' = 0
    /\ sc_batch' = <<>>
    /\ sc_fetched' = <<>>
    /\ UNCHANGED <<sc_script, sc_films, sc_interval, sc_out>>
    /\ UNCHANGED <<normVars, pipeVars, runVars, moneyVars, reqVars, casVars>>

\* a run begins (02 lines 181-203, 04 lines 270-301): the checkpoint is read
ScrapeStart ==
    /\ sc_script # "none"
    /\ sc_pc # "running"
    /\ sc_pc' = "running"
    /\ sc_processed' = load_checkpoint(sc_out)
    /\ sc_start_ids' = load_checkpoint(sc_out)
    /\ sc_i' = 0
    /\ sc_batch' = <<>>
    /\ sc_fetched' = <<>>
    /\ UNCHANGED <<sc_script, sc_films, sc_interval, sc_out>>
    /\ UNCHANGED <<normVars, pipeVars, runVars, moneyVars, reqVars, casVars>>

\* one pass of the loop (02 lines 205-241, 04 lines 303-386): the film is
\* skipped or fetched, and the batch is saved when it is full
ScrapeStep ==
    /\ sc_pc = "running"
    /\ sc_i < Len(sc_films)
    /\ sc_i' = sc_i + 1
    /\ LET film == sc_films[sc_i + 1]
       IN IF film.id \in sc_processed
          THEN UNCHANGED <<sc_out, sc_processed, sc_batch, sc_fetched>>
          ELSE \E got \in RecordsOf(sc_script, film) :
               LET batch == Append(sc_batch, got.record)
               IN /\ sc_fetched' = Append(sc_fetched, [id |-> film.id, ok |-> got.ok])
                  /\ IF Len(batch) >= sc_interval
                     THEN /\ sc_out' = save_checkpoint(batch, sc_out)
                          /\ sc_processed' = sc_processed \cup load_checkpoint(batch)
                          /\ sc_batch' = <<>>
                     ELSE /\ sc_batch' = batch
                          /\ UNCHANGED <<sc_out, sc_processed>>
    /\ UNCHANGED <<sc_script, sc_films, sc_interval, sc_pc, sc_start_ids>>
    /\ UNCHANGED <<normVars, pipeVars, runVars, moneyVars, reqVars, casVars>>

\* the loop is over (02 lines 243-245, 04 lines 388-396): the rest of the
\* batch is saved; the summary of 04 divides by the number of films fetched
\* and raises ZeroDivisionError, after the save, when every film was skipped
ScrapeFinish ==
    /\ sc_pc = "running"
    /\ sc_i = Len(sc_films)
    /\ sc_out' = save_checkpoint(sc_batch, sc_out)
    /\ sc_batch' = <<>>
    /\ sc_pc' = IF sc_script = "rt_scores" /\ sc_fetched = <<>> THEN "failed"
                ELSE "done"
    /\ UNCHANGED <<sc_script, sc_films, sc_interval, sc_i, sc_processed,
                   sc_fetched, sc_start_ids>>
    /\ UNCHANGED <<normVars, pipeVars, runVars, moneyVars, reqVars, casVars>>

\* the process is stopped between two checkpoint writes: what it held in
\* memory is lost, the output file stays as the last write left it
ScrapeInterrupt ==
    /\ sc_pc = "running"
    /\ sc_pc' = "idle"
    /\ sc_i' = 0
    /\ sc_processed' = {}
    /\ sc_batch' = <<>>
    /\ sc_fetched' = <<>>
    /\ sc_start_ids' = {}
    /\ UNCHANGED <<sc_script, sc_films, sc_interval, sc_out>>
    /\ UNCHANGED <<normVars, pipeVars, runVars, moneyVars, reqVars, casVars>>

\* 04b_rescrape_rt_missing lines 87-168 for one row of rt_scores.csv: a row
\* with a page but no scores (lines 87-91) is looked up again, by slug
\* (lines 138-155) and then by search (lines 160-175), and rewritten when
\* scores are found; `direct` and `search` are the kinds of the pages found
RescrapeRow(row, direct, search) ==
    IF /\ row.match_method # Some("unmatched")
       /\ row.tomatometer = Null
       /\ row.audience_score = Null
    THEN IF extract_rt_data(direct).tomatometer # Null
         THEN extract_rt_data(direct)
              @@ [rt_url |-> Some(MovieUrl(<<"u", "p", "_", "2", "3">>)),
                  match_method |-> Some("rescrape_direct")]
              @@ row
         ELSE IF extract_rt_data(search).tomatometer # Null
         THEN extract_rt_data(search)
              @@ [rt_url |-> Some(MovieUrl(<<"u", "p">>)),
                  match_method |-> Some("rescrape_search")]
              @@ row
         ELSE row
    ELSE row

\* one run of 04b_rescrape_rt_missing (lines 76-180): rt_scores.csv is read,
\* its rows without scores are looked up again and the file is rewritten
Rescrape ==
    /\ sc_script = "rt_scores"
    /\ sc_pc # "running"
    /\ sc_out # <<>>
    /\ \E w \in [1..Len(sc_out) -> {<<"scores", "none">>, <<"skeleton", "scores">>,
                                    <<"none", "none">>}] :
          sc_out' = [k \in 1..Len(sc_out) |->
                        RescrapeRow(sc_out[k], w[k][1], w[k][2])]
    /\ UNCHANGED <<sc_script, sc_films, sc_interval, sc_pc, sc_i, sc_processed,
                   sc_batch, sc_fetched, sc_start_ids>>
    /\ UNCHANGED <<normVars, pipeVars, runVars, moneyVars, reqVars, casVars>>

\* any sequence of runs of one scraper over one film list (the identifiers of
\* the list are distinct: 01_scrape_bom_index drops duplicates), each run
\* possibly interrupted, and of the re-scrape step
InitScrape ==
    /\ sc_script \in {"bom_details", "rt_scores"}
    /\ \E n \in 1..MaxFilms :
          sc_films = [k \in 1..n |-> [id |-> Ids[k], title |-> TitleTheF]]
    /\ sc_interval \in 1..MaxInterval
    /\ sc_out = <<>>
    /\ sc_pc = "idle"
    /\ sc_i = 0
    /\ sc_processed = {}
    /\ sc_batch = <<>>
    /\ sc_fetched = <<>>
    /\ sc_start_ids = {}
    /\ PipelineIdle /\ MoneyIdle /\ RequestIdle /\ CascadeIdle

NextScrape ==
    \/ ScrapeStart
    \/ ScrapeStep
    \/ ScrapeFinish
    \/ ScrapeInterrupt
    \/ Rescrape

SpecScrape == InitScrape /\ [][NextScrape]_vars

(***************************************************************************)
(* C21: the in-progress-release flag                                       *)
(***************************************************************************)
\* the end-of-study date minus the trailing window of 56 days
InTheatersCutoff == <<2025, 12, 13>>

\* C21: the in-progress-release flag of a row is a boolean, true iff the
\* resolved release date is non-null and on or after the end-of-study date
\* minus the trailing window; a null release date gives false, never null.
C21_InTheatersFlag ==
    /\ InTheaters(Null) = FALSE
    /\ Produced(final) =>
          \A k \in 1..Len(Rows(final)) :
              LET r == Rows(final)[k]
              IN /\ r.in_theaters \in BOOLEAN
                 /\ r.in_theaters <=>
                       /\ r.release_date_parsed # Null
                       /\ DateLE(InTheatersCutoff, Val(r.release_date_parsed))

\* a film released on the cutoff day is flagged as still in theaters
C21_CutoffDayFlagged ==
    /\ Produced(merged_csv)
    /\ \E k \in 1..Len(Rows(final)) :
          /\ Rows(final)[k].release_date_parsed = Some(InTheatersCutoff)
          /\ Rows(final)[k].in_theaters = TRUE

(***************************************************************************)
(* C23: the filters and their log lines                                    *)
(***************************************************************************)
\* C23: the date-window filter is applied and logged first, the breadth
\* filter second, each log line giving the rows left and the rows removed;
\* no other step lowers the row count, so the finalized table has the rows
\* of the matched table minus exactly the rows the two log lines count as
\* removed.
C23_EveryDropIsLogged ==
    /\ (Produced(raw) /\ Produced(bom)) => Len(Rows(bom)) >= Len(Rows(raw).bom_index)
    /\ (Produced(bom) /\ Produced(bom_rt)) => Len(Rows(bom_rt)) >= Len(Rows(bom))
    /\ (Produced(bom_rt) /\ Produced(full)) => Len(Rows(full)) >= Len(Rows(bom_rt))
    /\ Produced(filtered) =>
          LET n == Len(Rows(full))
              dated == SelectSeq(Rows(full), DateKept)
              wide == SelectSeq(dated, TheatersKept)
          IN /\ Len(log_lines) >= 2
             /\ log_lines[1] = [line |-> "After date filter", rows |-> Len(dated),
                                removed |-> n - Len(dated)]
             /\ log_lines[2] = [line |-> "After wide release filter",
                                rows |-> Len(wide),
                                removed |-> Len(dated) - Len(wide)]
             /\ Len(Rows(filtered)) = n - log_lines[1].removed - log_lines[2].removed
             /\ Produced(final) => Len(Rows(final)) = Len(Rows(filtered))
             /\ stage = "FINALIZED" =>
                   /\ Len(Rows(merged_csv)) =
                         n - log_lines[1].removed - log_lines[2].removed
                   /\ log_lines[3].rows = Len(Rows(merged_csv))

\* of two films, one fails both filters and is counted by the date line
\* alone, and the other is written to the finalized table
C23_OneDroppedByDateOneKept ==
    /\ stage = "FINALIZED"
    /\ Len(Rows(full)) = 2
    /\ \E k \in 1..2 : ~DateKept(Rows(full)[k]) /\ ~TheatersKept(Rows(full)[k])
    /\ log_lines[1].removed = 1
    /\ log_lines[2].removed = 0
    /\ Len(Rows(merged_csv)) = 1

(***************************************************************************)
(* C22: parse_money                                                        *)
(***************************************************************************)
\* the decimal digits of 400000000 and of 1200000000
Digits400M == <<"4", "0", "0", "0", "0", "0", "0", "0", "0">>
Digits1200M == <<"1", "2", "0", "0", "0", "0", "0", "0", "0", "0">>

\* C22: parse_money never raises: it returns null for an empty text, a dash,
\* "n/a" and any text it cannot parse, and an integer otherwise, with "$" and
\* "," removed and the suffix applied ("$400M" is 400000000, "$1.2B" is
\* 1200000000).
C22_NullOrIntegerNeverRaises ==
    money_result.kind # "pending" =>
        /\ money_result.kind = "returned"
        /\ money_text \in {<<>>, <<"-">>, <<"n", "/", "a">>} =>
              money_result.value = Null
        /\ money_text = <<"$", "4", "0", "0", "M">> =>
              money_result.value = Some([neg |-> FALSE, digits |-> Digits400M])
        /\ money_text = <<"$", "1", ".", "2", "B">> =>
              money_result.value = Some([neg |-> FALSE, digits |-> Digits1200M])

(***************************************************************************)
(* C24: the diagnostics table                                              *)
(***************************************************************************)
\* the review page of the film was not found, or its budget match is in the
\* review band
NeedsAudit(r) ==
    \/ Get(r, "match_method") = Some("unmatched")
    \/ r.tn_match_status = "review"

\* C24: the diagnostics table has exactly one row per row of the finalized
\* table, with the same release identifiers in the same order, so that every
\* finalized row whose review page is unmatched or whose budget status is
\* review is in it, with the diagnostic columns of that row.
C24_DiagnosticsRowPerFilm ==
    stage = "FINALIZED" =>
        LET out == Rows(merged_csv)
            diag == Rows(diag_csv)
        IN /\ Len(diag) = Len(out)
           /\ IdsOf(diag) = IdsOf(out)
           /\ \A k \in 1..Len(out) :
                 NeedsAudit(Rows(final)[k]) =>
                    /\ k <= Len(diag)
                    /\ diag[k] = [c \in DiagCols \cap DOMAIN Rows(final)[k]
                                    |-> Rows(final)[k][c]]

\* two films are finalized and the first has no review page
C24_UnmatchedFilmInDiagnostics ==
    /\ stage = "FINALIZED"
    /\ Len(Rows(diag_csv)) = 2
    /\ Len(Rows(merged_csv)) = 2
    /\ Get(Rows(diag_csv)[1], "match_method") = Some("unmatched")
    /\ Get(Rows(diag_csv)[2], "match_method") = Some("direct_url")

(***************************************************************************)
(* C28: the budget of a row and its match status                           *)
(***************************************************************************)
\* C28: from the matched table on, a row has a production budget and a
\* matched budget title only if its status is matched; a row with the status
\* review or unmatched has no budget and no log budget.
C28_BudgetOnlyWhenMatched ==
    /\ Produced(full) =>
          \A k \in 1..Len(Rows(full)) :
              LET r == Rows(full)[k]
              IN r.tn_match_status # "matched" =>
                    /\ r.production_budget = Null
                    /\ r.tn_title_matched = Null
    /\ Produced(final) =>
          \A k \in 1..Len(Rows(final)) :
              LET r == Rows(final)[k]
              IN r.tn_match_status # "matched" =>
                    /\ r.production_budget = Null
                    /\ r.log_budget = Null

(***************************************************************************)
(* C30: make_request                                                       *)
(***************************************************************************)
\* the outcome of a GET is one the claim says is retried: a status 429, 403
\* or 5xx, a connection error or a timeout
Retried(o) ==
    \/ o.kind \in {"ConnectionError", "Timeout"}
    \/ o.kind = "response" /\ (o.status \in {429, 403} \/ o.status \in 500..599)

\* no more than max_retries GETs; a response that is not retried ends the call
\* at once and is what the call returns; None is returned only after
\* max_retries GETs that were all retried
RequestWithinBudget ==
    /\ Len(req_trace) <= req_max
    /\ \A k \in 1..(Len(req_trace) - 1) : Retried(req_trace[k])
    /\ req_result.kind = "pending" =>
          \A k \in 1..Len(req_trace) : Retried(req_trace[k])
    /\ req_result.kind = "response" =>
          /\ req_trace # <<>>
          /\ req_trace[Len(req_trace)] =
                [kind |-> "response", status |-> req_result.status]
          /\ ~Retried(req_trace[Len(req_trace)])
    /\ req_result.kind = "none" =>
          /\ Len(req_trace) = req_max
          /\ \A k \in 1..Len(req_trace) : Retried(req_trace[k])

\* C30: make_request always terminates, after at most max_retries GETs: it
\* returns the response at the first 200 or other status that is not 429,
\* 403 or 5xx (a 404 is not retried), retries on 429, 403, 5xx, connection
\* error and timeout, and returns None once max_retries GETs were retried.
C30_TerminatesWithinMaxRetries ==
    /\ []RequestWithinBudget
    /\ <>(req_result.kind # "pending")

\* the default three attempts all retried, and None returned
C30_ThreeRetriesThenNone ==
    /\ req_max = 3
    /\ req_result.kind = "none"
    /\ Len(req_trace) = 3
    /\ req_trace[1].status = 429
    /\ req_trace[2].kind = "Timeout"
    /\ req_trace[3].status = 503

(***************************************************************************)
(* C25: the order of the review-page cascade                               *)
(***************************************************************************)
\* the page of slug k resolved (status 200) and was not redirected to the
\* search page
Resolves(film, k) ==
    /\ film.direct[k] # Null
    /\ film.direct[k][1].status = 200
    /\ film.direct[k][1].url = MovieUrl(film.slugs[k])

\* C25: the slug candidates are probed in list order and the cascade stops at
\* the first page that resolves without a redirect to the search page
\* (method direct_url); the search request is made only after every slug
\* failed; the method is search only when the search returned a URL and that
\* page was fetched; otherwise it is unmatched with every score field null.
C25_CascadeOrder ==
    cas_done # <<>> =>
        LET film == cas_film
            reqs == cas_done.requests
            rec == cas_done.record
            n == Len(film.slugs)
            ok == {k \in 1..n : Resolves(film, k)}
            probed == {k \in 1..Len(reqs) : reqs[k].kind = "direct"}
            searched == \E k \in 1..Len(reqs) : reqs[k].kind = "search"
            fetched == /\ film.search # Null
                       /\ film.found # Null
                       /\ film.found[1].status = 200
        IN /\ \A k \in probed : k <= n /\ reqs[k].url = MovieUrl(film.slugs[k])
           /\ ok # {} =>
                 /\ rec.match_method = Some("direct_url")
                 /\ probed = 1..(CHOOSE k \in ok : \A j \in ok : k <= j)
                 /\ ~searched
           /\ ok = {} =>
                 /\ probed = 1..n
                 /\ searched
                 /\ rec.match_method =
                       IF fetched THEN Some("search") ELSE Some("unmatched")
           /\ rec.match_method = Some("unmatched") =>
                 /\ rec.tomatometer = Null
                 /\ rec.audience_score = Null
                 /\ rec.rt_rating = Null
                 /\ rec.rt_url = Null

(***************************************************************************)
(* C26, C27, C29: the runs of the scrapers                                 *)
(***************************************************************************)
\* C26: after any sequence of runs of the review scraper and of the
\* re-scrape step, the match_method of every review record is one of
\* direct_url, search, unmatched.
C26_MethodIsOneOfThree ==
    sc_script = "rt_scores" =>
        \A k \in 1..Len(sc_out) :
            sc_out[k].match_method \in
                {Some("direct_url"), Some("search"), Some("unmatched")}

\* the rows this run holds: the output file and the batch not yet saved
HeldRows == sc_out \o sc_batch

\* C27: a film whose detail page could not be fetched (no response after the
\* retries, or a status other than 200) is not dropped and does not end the
\* run: it gets a record with the identifier and the title set and every
\* other field null, and a run that reaches its end has a record for every
\* film of the list.
C27_FailedFetchKeepsFilm ==
    sc_script = "bom_details" =>
        /\ \A k \in 1..Len(sc_fetched) :
              ~sc_fetched[k].ok =>
                 \E j \in 1..Len(HeldRows) :
                    LET r == HeldRows[j]
                    IN /\ r.bom_release_id = Some(sc_fetched[k].id)
                       /\ r.title = Some(TitleTheF)
                       /\ \A c \in DOMAIN r \ {"bom_release_id", "title"} :
                             r[c] = Null
        /\ sc_pc = "done" =>
              \A k \in 1..Len(sc_films) :
                  \E j \in 1..Len(sc_out) :
                      sc_out[j].bom_release_id = Some(sc_films[k].id)

\* one run over three films: the page of the first could not be fetched, the
\* two after it were fetched and parsed
C27_FailureThenTwoParsed ==
    /\ sc_script = "bom_details"
    /\ sc_pc = "done"
    /\ sc_start_ids = {}
    /\ Len(sc_fetched) = 3
    /\ ~sc_fetched[1].ok /\ sc_fetched[2].ok /\ sc_fetched[3].ok
    /\ Len(sc_out) = 3
    /\ sc_out[1].release_date = Null
    /\ sc_out[3].release_date # Null

\* C29: in any sequence of runs over the same film list, each possibly
\* interrupted between checkpoint writes, a film whose identifier is in the
\* output file when a run begins is not fetched in that run (and no film is
\* fetched twice in one run), and once a run has reached its end the output
\* file has exactly one row for every identifier of the list.
C29_ResumeFetchesOnlyMissing ==
    /\ \A k \in 1..Len(sc_fetched) :
          /\ sc_fetched[k].id \notin sc_start_ids
          /\ \A j \in 1..Len(sc_fetched) : sc_fetched[j].id = sc_fetched[k].id => j = k
    /\ sc_pc \in {"done", "failed"} =>
          /\ Len(sc_out) = Len(sc_films)
          /\ \A k \in 1..Len(sc_films) :
                \E j \in 1..Len(sc_out) :
                    sc_out[j].bom_release_id = Some(sc_films[k].id)

\* a run that began with two of three films already in the file, fetched the
\* third alone and reached its end
C29_ResumedAfterCheckpoint ==
    /\ sc_pc = "done"
    /\ Len(sc_films) = 3
    /\ sc_start_ids = {Ids[1], Ids[2]}
    /\ Len(sc_fetched) = 1
    /\ sc_fetched[1].id = Ids[3]
    /\ Len(sc_out) = 3

=============================================================================
